---- MODULE Spec2Model ----
(***************************************************************************)
(* The stage-based job queue of the girlsChannel pipeline: the launcher    *)
(* (01_ランチャー.py), the items table it shares with the stage handlers   *)
(* (02, 03, 04, 05, 99) and the ingestion script (00_リスト作成.py).        *)
(* Every SQL statement (or statement + commit) is one atomic step; the     *)
(* steps of the launcher processes, of the handler process each launcher   *)
(* spawns, and of the ingestion script interleave freely.                  *)
(***************************************************************************)
EXTENDS Integers, Sequences, FiniteSets, TLC

\* ---------------------------------------------------------------- bounds
NumDrivers == 2        \* launcher processes running against the same store
MaxJobs == 2           \* ids the items table can hold; the last one may be ingested later
MaxDate == 2           \* distinct post_date values
MaxRuns == 2           \* largest --runs a launcher is started with
MaxUpserts == 1        \* upsert calls of the ingestion script
MaxTotalChanges == 1   \* con.total_changes is counted up to this value
GuardRowsMax == 52     \* rows of the store the guard is tried on (SpecGuard)

\* --------------------------------------------------- program configuration
STA_02 == 1
END_02 == 2
STA_03 == 2
END_03 == 3
STA_04 == 3
END_04 == 4
STA_05 == 4
END_05 == 5
STA_99 == 5
END_99 == 6
GUARD_LIMIT == 50
RUNS_DEFAULT == 1
LOCK_RETRY_MAX == 25
RESET_TO_ZERO_ON_FAIL_02 == FALSE
STOP_ON_ERROR == FALSE

NULL == <<>>
None == 0

Drivers == 1..NumDrivers
Ids == 1..MaxJobs
Dates == 1..MaxDate

\* The five handler roles, in the order process_one_item visits them.
Steps == <<"02", "03", "04", "05", "99">>
StepIdx == 1..5

STA(i) == CASE i = 1 -> STA_02 [] i = 2 -> STA_03 [] i = 3 -> STA_04
            [] i = 4 -> STA_05 [] OTHER -> STA_99
END(i) == CASE i = 1 -> END_02 [] i = 2 -> END_03 [] i = 3 -> END_04
            [] i = 4 -> END_05 [] OTHER -> END_99

VARIABLES
  items,          \* the items table: id -> row
  writer,         \* process holding sqlite's write lock (BEGIN IMMEDIATE), 0 = free
  procs,          \* the launcher processes that were started
  pc,             \* launcher d: position in main / process_one_item
  item,           \* launcher d: item_id of the picked row (0 = None)
  step,           \* launcher d: index of the section (02..99) being executed
  err,            \* launcher d: the exception message caught in the section
  runsArg,        \* launcher d: args.runs
  runs,           \* launcher d: loop iterations completed
  ret,            \* launcher d: return value of the last process_one_item
  err_count,      \* launcher d: main's err_count
  rcs,            \* history: what d's iterations returned, in order
  total_changes,  \* launcher d: con.total_changes of its connection
  hpc,            \* handler spawned by d: position in its main
  hitem,          \* handler spawned by d: the id it picked (0 = None)
  hrc,            \* exit status of the handler d spawned last in this iteration
  upserts,        \* upsert calls made by the ingestion script
  viaLock,        \* history: d's iteration got its row from lock_new_job_atomic
  hfailed,        \* history: a handler of d's iteration failed in its work
  ran,            \* history: sections whose handler d's iteration has spawned
  completed,      \* history: <<id, step>> whose handler has completed successfully
  tries,          \* launcher d: attempts made of the transaction that reported busy
  attempt,        \* handler of d: attempts of its retry loop that reported "locked"
  hexc,           \* handler of d: what its last retry-wrapped transaction raised
  timeoutOn,      \* a TIMEOUT_i is configured for the handlers
  hstdout,        \* handler of d: its end of the stdout pipe is open
  hkill,          \* handler of d: p.kill() has sent it SIGKILL
  cols,           \* the columns of the items table
  impl,           \* process d: which column-ensuring function it runs
  seen,           \* process d: the column list it read (PRAGMA table_info)
  spos,           \* process d: position in the column-ensuring function
  scalls,         \* process d: calls of the column-ensuring function it has started
  serr,           \* process d: the error the column-ensuring function raised
  stamped,        \* SpecStamp: the rows whose updated_at the last write has set
  exitcode,       \* launcher d: what main returned (NULL while it runs)
  stas,           \* the configured <<STA_02, STA_03, STA_04, STA_05, STA_99>>
  uqueue,         \* uploader d: the jobs of its fetched queue it has not worked on yet
  uploaded,       \* the rows whose video_uploaded is 1
  failing         \* the handler role (1..5) whose work raises on every invocation; 0: none

\* Busy reports, retry loops, timeouts, schema evolution and updated_at: the
\* variables only the specifications about them change.
aux == <<tries, attempt, hexc, timeoutOn, hstdout, hkill, cols, impl, seen, spos, scalls,
         serr, stamped, exitcode, stas, uqueue, uploaded, failing>>

\* everything of aux but the handlers' retry-loop state
auxH == <<tries, timeoutOn, hstdout, hkill, cols, impl, seen, spos, scalls, serr, stamped, exitcode, stas, uqueue, uploaded, failing>>

vars == <<items, writer, procs, runsArg, pc, item, step, err, runs, ret, err_count, rcs, total_changes,
          hpc, hitem, hrc, upserts, viaLock, hfailed, ran, completed, aux>>

dvars == <<pc, item, step, err, runs, ret, err_count, rcs, total_changes, viaLock>>
hvars == <<hpc, hitem, hrc>>
histvars == <<hfailed, ran, completed>>

\* ------------------------------------------------------------ the table
Row(cc, folder, lerr, date) ==
  [check_create |-> cc, folder_name |-> folder, last_error |-> lerr, post_date |-> date]

IdsAt(tbl, stage) == {j \in DOMAIN tbl : tbl[j].check_create = stage}

\* The id column is TEXT: the digits of the topic URL as the ingestion script
\* found them. A row key j > 0 stands for the id str(j); a key j < 0 stands for
\* the id '0' + str(-j), the same digits behind one leading zero.
RECURSIVE DecimalOf(_)
DecimalOf(n) == IF n < 10 THEN <<n>> ELSE Append(DecimalOf(n \div 10), n % 10)

IdText(j) == IF j > 0 THEN DecimalOf(j) ELSE <<0>> \o DecimalOf(0 - j)

\* int(text)
RECURSIVE IntOfDigits(_)
IntOfDigits(t) ==
  IF t = <<>> THEN 0 ELSE 10 * IntOfDigits(SubSeq(t, 1, Len(t) - 1)) + t[Len(t)]

\* item_id = int(row["id"])
int_id(j) == IntOfDigits(IdText(j))

\* WHERE id = ? with the integer item_id bound: the TEXT column compares with
\* the decimal text of the integer (0 = no row)
SqlIdEq(tbl, j) ==
  IF \E k \in DOMAIN tbl : IdText(k) = DecimalOf(int_id(j))
  THEN CHOOSE k \in DOMAIN tbl : IdText(k) = DecimalOf(int_id(j))
  ELSE None

\* text order of two ids (BINARY collation)
RECURSIVE TextLess(_, _)
TextLess(a, b) ==
  IF b = <<>> THEN FALSE
  ELSE IF a = <<>> THEN TRUE
  ELSE IF a[1] # b[1] THEN a[1] < b[1]
  ELSE TextLess(Tail(a), Tail(b))

\* ORDER BY post_date DESC, id DESC
Before(tbl, j, k) ==
  \/ tbl[j].post_date > tbl[k].post_date
  \/ tbl[j].post_date = tbl[k].post_date /\ TextLess(IdText(k), IdText(j))

\* ... LIMIT 1 of a SELECT whose WHERE clause yields the ids S (0 = no row)
FirstByPostDate(tbl, S) ==
  IF S = {} THEN None
  ELSE CHOOSE j \in S : \A k \in S \ {j} : Before(tbl, j, k)

Max(S) == CHOOSE x \in S : \A y \in S : y <= x

\* ORDER BY id DESC LIMIT n
RECURSIVE TopIdsDesc(_, _)
TopIdsDesc(S, n) ==
  IF S = {} \/ n = 0 THEN <<>>
  ELSE <<Max(S)>> \o TopIdsDesc(S \ {Max(S)}, n - 1)

\* COALESCE(folder_name, '') followed by Python's str.strip(): NULL and ''
\* both read as the empty string.
EmptyStr == <<"">>
FolderOf(tbl, j) == IF tbl[j].folder_name = EmptyStr THEN NULL ELSE tbl[j].folder_name
\* folder_name IS NOT NULL AND folder_name != ''
HasFolder(tbl, j) == tbl[j].folder_name # NULL /\ tbl[j].folder_name # EmptyStr

\* folder_name = f"{topic_id}_{run_stamp}_{folder_title}": never empty.
\* run_stamp = datetime.now() of the handler run, to the second: two runs of
\* handler 02 on one topic give two names. A run is named by the launcher that
\* started it and that launcher's iteration.
FolderName(tid, run) == <<"folder", tid, run>>
\* a run of handler 02 that ended before the launchers were started
EarlierRun == <<0, 0>>

\* ------------------------------------------------- launcher: pure helpers
\* guard_unique_stage: the rows of "WHERE check_create=? ORDER BY id DESC LIMIT 50";
\* it raises unless exactly one row came back, and the message lists their ids.
GuardRows(tbl, stage) == TopIdsDesc(IdsAt(tbl, stage), GUARD_LIMIT)
\* Variant: a guard that only objects to duplicates (len(rows) > 1).
GuardRaisesOnMany(rows) == Len(rows) > 1
GuardRaises(rows) == Len(rows) # 1
GuardMessage(stage, rows) == <<"check_create rows", stage, Len(rows), rows>>
guard_unique_stage(tbl, stage) ==
  LET rows == GuardRows(tbl, stage)
  IN  [raised |-> GuardRaises(rows),
       message |-> IF GuardRaises(rows) THEN GuardMessage(stage, rows) ELSE NULL]

\* STA_02 .. STA_99 as the environment gives them (here: the defaults)
ConfiguredStages == <<STA_02, STA_03, STA_04, STA_05, STA_99>>

\* Variant: ORDER BY check_create, the numeric order of the stage values.
OrderCaseNumeric(cfg, cc) == cc

\* CASE check_create WHEN STA_02 THEN 1 ... WHEN STA_99 THEN 5 ELSE 99 END
\* (the first WHEN that matches)
OrderCaseOf(cfg, cc) ==
  IF cc = cfg[1] THEN 1 ELSE IF cc = cfg[2] THEN 2 ELSE IF cc = cfg[3] THEN 3
  ELSE IF cc = cfg[4] THEN 4 ELSE IF cc = cfg[5] THEN 5 ELSE 99

OrderCase(cc) == OrderCaseOf(ConfiguredStages, cc)

InProgressStages == {STA_02, STA_03, STA_04, STA_05, STA_99}

\* pick_inprogress_job: WHERE check_create IN (stages) ORDER BY order_case ASC, id DESC LIMIT 1
pick_inprogress_with(tbl, cfg) ==
  LET S == {j \in DOMAIN tbl : \E k \in 1..Len(cfg) : tbl[j].check_create = cfg[k]}
  IN  IF S = {} THEN None
      ELSE CHOOSE j \in S : \A k \in S \ {j} :
             \/ OrderCaseOf(cfg, tbl[j].check_create) < OrderCaseOf(cfg, tbl[k].check_create)
             \/ /\ OrderCaseOf(cfg, tbl[j].check_create) = OrderCaseOf(cfg, tbl[k].check_create)
                /\ j > k

\* Variant: the launcher never looks for a job in progress.
pick_inprogress_never(tbl) == None

pick_inprogress_job(tbl) == pick_inprogress_with(tbl, ConfiguredStages)

\* lock_new_job_atomic's SELECT: WHERE check_create = 0 ORDER BY post_date DESC, id DESC LIMIT 1
NewJobCandidates(tbl) == IdsAt(tbl, 0)
SelectNewJob(tbl) == FirstByPostDate(tbl, NewJobCandidates(tbl))

\* lock_new_job_atomic's UPDATE ... WHERE id = ? AND check_create = 0
LockUpdateMatches(tbl, id) == id \in DOMAIN tbl /\ tbl[id].check_create = 0
\* Variant: the claim leaves last_error as it is.
LockUpdateKeepsError(tbl, id) ==
  IF LockUpdateMatches(tbl, id) THEN [tbl EXCEPT ![id].check_create = STA_02] ELSE tbl

LockUpdate(tbl, id) ==
  IF LockUpdateMatches(tbl, id)
  THEN [tbl EXCEPT ![id].check_create = STA_02, ![id].last_error = NULL]
  ELSE tbl

\* Variant: a plain BEGIN (deferred), which takes no lock at all.
CanBeginDeferred(w) == TRUE
\* BEGIN IMMEDIATE waits (busy_timeout) until no other connection holds the write lock.
CanBeginImmediate(w) == w = 0
\* Any other write statement needs the same lock for the statement and its commit.
CanWrite(w) == w = 0

\* fetch_status: (-999, '') when the row is missing
fetch_status(tbl, id) ==
  IF id \in DOMAIN tbl
  THEN [check_create |-> tbl[id].check_create, folder_name |-> FolderOf(tbl, id)]
  ELSE [check_create |-> -999, folder_name |-> NULL]

\* require_stage raises unless the row's check_create is the expected one
RequireStageRaises(tbl, id, expected) == fetch_status(tbl, id).check_create # expected
RequireStageMessage(tbl, id, expected) ==
  <<"expected check_create", expected, fetch_status(tbl, id).check_create, id>>

\* run_script_realtime: raise RuntimeError(f"{script} failed (exit={rc})")
ExitMessage(rc) == <<"failed (exit=rc)", rc>>
EmptyFolderMessage == <<"after 02: folder_name is empty">>

\* err = f"{NN} failed: {type(e).__name__}: {e}"
FailureText(i, e) == <<Steps[i], "failed", "RuntimeError", e>>

\* Variant: every section resets the job to 0 on failure.
FailStageReset(i) == 0

\* The check_create value the except-branch of section i writes.
FailStage(i) == IF i = 1 /\ RESET_TO_ZERO_ON_FAIL_02 THEN 0 ELSE STA(i)

\* Variant: a failure write that sets check_create only.
update_item_stage_only(tbl, id, cc, lerr) ==
  IF id \in DOMAIN tbl THEN [tbl EXCEPT ![id].check_create = cc] ELSE tbl

\* Variant: the failure UPDATE without its WHERE clause.
update_item_no_where(tbl, id, cc, lerr) ==
  [j \in DOMAIN tbl |-> [tbl[j] EXCEPT !.check_create = cc, !.last_error = lerr]]

\* update_item: UPDATE ... SET check_create, last_error, updated_at WHERE id = ?
update_item(tbl, id, cc, lerr) ==
  IF id \in DOMAIN tbl
  THEN [tbl EXCEPT ![id].check_create = cc, ![id].last_error = lerr]
  ELSE tbl

\* Variant: the next section is entered whatever st is.
DispatchFirst(s, from) == IF from > 5 THEN 0 ELSE from

\* The chain of "if st == STA_xx:" tests: the first section at or after `from`
\* whose entry value is st (0 = none, the "not a STA stage (skip)" exit).
RECURSIVE Dispatch(_, _)
Dispatch(s, from) ==
  IF from > 5 THEN 0
  ELSE IF s = STA(from) THEN from
  ELSE Dispatch(s, from + 1)

\* Variant: a post-condition that only looks at folder_name.
PostMessageFolderOnly(tbl, id, i) ==
  IF i = 1 /\ fetch_status(tbl, id).folder_name = NULL THEN EmptyFolderMessage ELSE NULL

\* The post-condition of section i: require_stage(END_i), and after 02 a folder_name.
PostMessage(tbl, id, i) ==
  IF RequireStageRaises(tbl, id, END(i)) THEN RequireStageMessage(tbl, id, END(i))
  ELSE IF i = 1 /\ fetch_status(tbl, id).folder_name = NULL THEN EmptyFolderMessage
  ELSE NULL

Sat(n) == IF n > MaxTotalChanges THEN MaxTotalChanges ELSE n

\* ------------------------------------------ handlers: pure helpers
\* 02: pick_one_stage_id, WHERE check_create=? ORDER BY post_date DESC, id DESC LIMIT 1
pick_one_stage_id(tbl, stage) == FirstByPostDate(tbl, IdsAt(tbl, stage))

\* 03, 04, 05 (queue_db.pick_one) and 99 (pick_one): the same query restricted to
\* rows with folder_name IS NOT NULL AND folder_name != ''
\* Variant: only "folder_name IS NOT NULL" is asked for.
pick_one_not_null(tbl, sta) ==
  FirstByPostDate(tbl, {j \in IdsAt(tbl, sta) : tbl[j].folder_name # NULL})

pick_one(tbl, sta) ==
  FirstByPostDate(tbl, {j \in IdsAt(tbl, sta) : HasFolder(tbl, j)})

HandlerPick(tbl, i) ==
  IF i = 1 THEN pick_one_stage_id(tbl, STA(i)) ELSE pick_one(tbl, STA(i))

\* The success UPDATE of every handler carries "AND check_create = STA".
SuccessMatches(tbl, id, i) == id \in DOMAIN tbl /\ tbl[id].check_create = STA(i)

\* Variant: success UPDATEs that leave last_error as it is.
SuccessUpdateKeepsError(tbl, id, i, run) ==
  IF ~SuccessMatches(tbl, id, i) THEN tbl
  ELSE IF i = 1
  THEN [tbl EXCEPT ![id].check_create = END(i), ![id].folder_name = FolderName(id, run)]
  ELSE [tbl EXCEPT ![id].check_create = END(i)]

\* Variant: a success UPDATE that clears last_error and leaves check_create.
SuccessUpdateNoStage(tbl, id, i, run) ==
  IF ~SuccessMatches(tbl, id, i) THEN tbl ELSE [tbl EXCEPT ![id].last_error = NULL]

\* Variant: a success UPDATE without "AND check_create = STA".
SuccessUpdateAnyStage(tbl, id, i, run) ==
  IF id \notin DOMAIN tbl THEN tbl
  ELSE [tbl EXCEPT ![id].check_create = END(i), ![id].last_error = NULL]

\* 02 update_stage_success writes folder_name; 03-05 mark_done and 99
\* update_stage_success leave it alone. All of them clear last_error.
SuccessUpdate(tbl, id, i, run) ==
  IF ~SuccessMatches(tbl, id, i) THEN tbl
  ELSE IF i = 1
  THEN [tbl EXCEPT ![id].check_create = END(i), ![id].folder_name = FolderName(id, run),
                   ![id].last_error = NULL]
  ELSE [tbl EXCEPT ![id].check_create = END(i), ![id].last_error = NULL]

HandlerError(i, what) == <<Steps[i], "handler", what>>

\* 02 and 99 update_stage_error write last_error only; queue_db.mark_fail
\* (03, 04, 05) also writes check_create = STA, whatever the row holds.
FailureUpdate(tbl, id, i, what) ==
  IF id \notin DOMAIN tbl THEN tbl
  ELSE IF i \in {1, 5}
  THEN [tbl EXCEPT ![id].last_error = HandlerError(i, what)]
  ELSE [tbl EXCEPT ![id].check_create = STA(i), ![id].last_error = HandlerError(i, what)]

\* 02 increment_check_deploy: last_error = "deploy_skip: ..." (check_deploy is not modelled)
DeploySkipUpdate(tbl, id) ==
  IF id \in DOMAIN tbl THEN [tbl EXCEPT ![id].last_error = <<"deploy_skip">>] ELSE tbl

\* 00_リスト作成 upsert: INSERT ... ON CONFLICT(id) DO UPDATE SET post_date = ... ;
\* check_create is given for a new row only (0).
\* Variant: ON CONFLICT also SET check_create = excluded.check_create.
upsert_overwrite(tbl, id, cc, date) ==
  [j \in DOMAIN tbl \cup {id} |->
     IF j # id THEN tbl[j]
     ELSE IF id \in DOMAIN tbl THEN [tbl[id] EXCEPT !.post_date = date, !.check_create = cc]
     ELSE Row(cc, NULL, NULL, date)]

\* upsert(con, row) with row["check_create"] = cc
upsert_with(tbl, id, cc, date) ==
  [j \in DOMAIN tbl \cup {id} |->
     IF j # id THEN tbl[j]
     ELSE IF id \in DOMAIN tbl THEN [tbl[id] EXCEPT !.post_date = date]
     ELSE Row(cc, NULL, NULL, date)]

\* main builds every row with "check_create": 0
upsert(tbl, id, date) == upsert_with(tbl, id, 0, date)

\* ------------------------------------------------------ launcher actions
\* process_one_item returns rc to main's loop, which counts it:
\* if rc == 0: ok_count += 1 else: err_count += 1
Return(d, rc) ==
  /\ pc' = [pc EXCEPT ![d] = "idle"]
  /\ runs' = [runs EXCEPT ![d] = @ + 1]
  /\ ret' = [ret EXCEPT ![d] = rc]
  /\ err_count' = [err_count EXCEPT ![d] = IF rc = 0 THEN @ ELSE @ + 1]
  /\ rcs' = [rcs EXCEPT ![d] = Append(@, rc)]

\* The local st is s: run the first section at or after `from` whose
\* "if st == STA_xx" holds, or leave with "not a STA stage (skip)".
Enter(d, s, from) ==
  /\ IF Dispatch(s, from) = 0
     THEN Return(d, 0) /\ UNCHANGED step
     ELSE /\ step' = [step EXCEPT ![d] = Dispatch(s, from)]
          /\ pc' = [pc EXCEPT ![d] = "guard"]
          /\ UNCHANGED <<runs, ret, err_count, rcs>>

\* main's loop starts an iteration (for i in range(args.runs), left early after
\* an error when STOP_ON_ERROR): process_one_item -> pick_inprogress_job
PickInProgress(d) ==
  /\ pc[d] = "idle"
  /\ runs[d] < runsArg[d]
  /\ ~(STOP_ON_ERROR /\ runs[d] > 0 /\ ret[d] # 0)
  /\ LET row == pick_inprogress_job(items)
     IN  /\ item' = [item EXCEPT ![d] = row]
         /\ IF row # None
            THEN Enter(d, items[row].check_create, 1)
            ELSE /\ pc' = [pc EXCEPT ![d] = "lock_begin"]
                 /\ UNCHANGED <<step, runs, ret, err_count, rcs>>
  /\ viaLock' = [viaLock EXCEPT ![d] = FALSE]
  /\ hfailed' = [hfailed EXCEPT ![d] = FALSE]
  /\ ran' = [ran EXCEPT ![d] = {}]
  /\ hrc' = [hrc EXCEPT ![d] = 0]
  /\ UNCHANGED <<items, writer, procs, runsArg, aux, err, total_changes, hpc, hitem, upserts,
                 completed>>

\* lock_new_job_atomic: BEGIN IMMEDIATE
LockBegin(d) ==
  /\ pc[d] = "lock_begin"
  /\ CanBeginImmediate(writer)
  /\ writer' = d
  /\ pc' = [pc EXCEPT ![d] = "lock_select"]
  /\ UNCHANGED <<items, procs, runsArg, aux, item, step, err, runs, ret, err_count, rcs, total_changes, hvars,
                 upserts, viaLock, histvars>>

\* lock_new_job_atomic: the SELECT; without a row ROLLBACK and return None,
\* and process_one_item returns 0 ("no item to process")
LockSelect(d) ==
  /\ pc[d] = "lock_select"
  /\ LET row == SelectNewJob(items)
     IN  /\ item' = [item EXCEPT ![d] = row]
         /\ IF row = None
            THEN /\ writer' = IF writer = d THEN 0 ELSE writer
                 /\ Return(d, 0)
            ELSE /\ pc' = [pc EXCEPT ![d] = "lock_update"]
                 /\ UNCHANGED <<writer, runs, ret, err_count, rcs>>
  /\ UNCHANGED <<items, procs, runsArg, aux, step, err, total_changes, hvars, upserts, viaLock,
                 histvars>>

\* lock_new_job_atomic: the conditional UPDATE, the total_changes test, then
\* ROLLBACK + return None (process_one_item returns 0) or COMMIT
LockUpdateStep(d) ==
  /\ pc[d] = "lock_update"
  /\ LET key == SqlIdEq(items, item[d])
         n == IF LockUpdateMatches(items, key) THEN 1 ELSE 0
         tc == Sat(total_changes[d] + n)
     IN  /\ total_changes' = [total_changes EXCEPT ![d] = tc]
         /\ IF tc = 0
            THEN /\ UNCHANGED items
                 /\ item' = [item EXCEPT ![d] = None]
                 /\ Return(d, 0)
            ELSE /\ items' = LockUpdate(items, key)
                 /\ pc' = [pc EXCEPT ![d] = "lock_reread"]
                 /\ UNCHANGED <<item, runs, ret, err_count, rcs>>
  /\ writer' = IF writer = d THEN 0 ELSE writer
  /\ UNCHANGED <<procs, runsArg, aux, step, err, hvars, upserts, viaLock, histvars>>

\* lock_new_job_atomic: return SELECT * WHERE id = ? (after the COMMIT);
\* without a row process_one_item returns 0 ("no item to process")
LockReread(d) ==
  /\ pc[d] = "lock_reread"
  /\ LET row == SqlIdEq(items, item[d])
     IN  /\ item' = [item EXCEPT ![d] = row]
         /\ IF row = None
            THEN Return(d, 0) /\ UNCHANGED step
            ELSE Enter(d, items[row].check_create, 1)
  /\ viaLock' = [viaLock EXCEPT ![d] = TRUE]
  /\ UNCHANGED <<items, writer, procs, runsArg, aux, err, total_changes, hvars, upserts,
                 histvars>>

\* section i: guard_unique_stage(con, STA_i)
Guard(d) ==
  /\ pc[d] = "guard"
  /\ LET g == guard_unique_stage(items, STA(step[d]))
     IN  IF g.raised
         THEN /\ err' = [err EXCEPT ![d] = g.message]
              /\ pc' = [pc EXCEPT ![d] = "fail"]
         ELSE /\ pc' = [pc EXCEPT ![d] = "pre"]
              /\ UNCHANGED err
  /\ UNCHANGED <<items, writer, procs, runsArg, aux, item, step, runs, ret, err_count, rcs, total_changes, hvars,
                 upserts, viaLock, histvars>>

\* section i: require_stage(con, item_id, expected=STA_i, "before i")
Pre(d) ==
  /\ pc[d] = "pre"
  /\ IF RequireStageRaises(items, item[d], STA(step[d]))
     THEN /\ err' = [err EXCEPT ![d] = RequireStageMessage(items, item[d], STA(step[d]))]
          /\ pc' = [pc EXCEPT ![d] = "fail"]
     ELSE /\ pc' = [pc EXCEPT ![d] = "run"]
          /\ UNCHANGED err
  /\ UNCHANGED <<items, writer, procs, runsArg, aux, item, step, runs, ret, err_count, rcs, total_changes, hvars,
                 upserts, viaLock, histvars>>

\* section i: run_script_realtime spawns the handler (subprocess.Popen)
Run(d) ==
  /\ pc[d] = "run"
  /\ pc' = [pc EXCEPT ![d] = "wait"]
  /\ hpc' = [hpc EXCEPT ![d] = "pick"]
  /\ hitem' = [hitem EXCEPT ![d] = None]
  /\ hrc' = [hrc EXCEPT ![d] = 0]
  /\ ran' = [ran EXCEPT ![d] = @ \cup {step[d]}]
  /\ UNCHANGED <<items, writer, procs, runsArg, aux, item, step, err, runs, ret, err_count, rcs, total_changes,
                 upserts, viaLock, hfailed, completed>>

\* section i: run_script_realtime reads the handler's output to its end and
\* p.wait() returns rc (no timeout is configured: TIMEOUT_i = None)
Wait(d) ==
  /\ pc[d] = "wait"
  /\ hpc[d] = "exit"
  /\ hpc' = [hpc EXCEPT ![d] = "none"]
  /\ IF hrc[d] # 0
     THEN /\ err' = [err EXCEPT ![d] = ExitMessage(hrc[d])]
          /\ pc' = [pc EXCEPT ![d] = "fail"]
     ELSE /\ pc' = [pc EXCEPT ![d] = "post"]
          /\ UNCHANGED err
  /\ hitem' = [hitem EXCEPT ![d] = None]
  /\ UNCHANGED <<items, writer, procs, runsArg, aux, item, step, runs, ret, err_count, rcs, total_changes,
                 hrc, upserts, viaLock, histvars>>

\* section i: require_stage(END_i) (+ folder_name after 02), st = END_i, and on
\* to the next "if st == STA_xx"; section 99 returns 0 itself
Post(d) ==
  /\ pc[d] = "post"
  /\ LET m == PostMessage(items, item[d], step[d])
     IN  IF m # NULL
         THEN /\ err' = [err EXCEPT ![d] = m]
              /\ pc' = [pc EXCEPT ![d] = "fail"]
              /\ UNCHANGED <<step, runs, ret, err_count, rcs>>
         ELSE /\ UNCHANGED err
              /\ IF step[d] = 5
                 THEN Return(d, 0) /\ UNCHANGED step
                 ELSE Enter(d, END(step[d]), step[d] + 1)
  /\ UNCHANGED <<items, writer, procs, runsArg, aux, item, total_changes, hvars, upserts, viaLock,
                 histvars>>

\* section i, except-branch: update_item(check_create=STA_i, last_error=err); return 1
Fail(d) ==
  /\ pc[d] = "fail"
  /\ CanWrite(writer)
  /\ items' = update_item(items, item[d], FailStage(step[d]), FailureText(step[d], err[d]))
  /\ total_changes' = [total_changes EXCEPT ![d] = Sat(@ + 1)]
  /\ err' = [err EXCEPT ![d] = NULL]
  /\ Return(d, 1)
  /\ UNCHANGED <<writer, procs, runsArg, aux, item, step, hvars, upserts, viaLock, histvars>>

\* The handlers' retry loops (02 and 99): for attempt in range(1, LOCK_RETRY_MAX + 1).
\* a is the number of attempts of the current loop that reported "locked";
\* another attempt is made while fewer than LOCK_RETRY_MAX have.
RetryLeftOneMore(a) == a <= LOCK_RETRY_MAX

RetryLeft(a) == a < LOCK_RETRY_MAX

\* the transaction a handler is in at position p
TxnName(p) ==
  CASE p = "claim" -> "claim_job_atomic"
    [] p = "failmark" -> "update_stage_error"
    [] OTHER -> "update_stage_success"

\* raise sqlite3.OperationalError("database is locked (retry exceeded) on <txn>")
RetryExceeded(p) == <<"OperationalError", "database is locked (retry exceeded)", TxnName(p)>>

\* the run of the handler that launcher d has started
RunStamp(d) == <<d, runs[d]>>

\* ------------------------------------------------------- handler actions
\* The handler's own SELECT of "the" row of its stage; without a row it
\* prints "no item" and exits 0.
HPick(d) ==
  /\ hpc[d] = "pick"
  /\ LET row == HandlerPick(items, step[d])
     IN  /\ hitem' = [hitem EXCEPT ![d] = row]
         /\ hpc' = [hpc EXCEPT ![d] =
                      IF row = None THEN "exit" ELSE IF step[d] = 5 THEN "claim" ELSE "work"]
  /\ UNCHANGED <<items, writer, procs, runsArg, aux, dvars, hrc, upserts, histvars>>

\* 99 claim_job_atomic: UPDATE updated_at WHERE id = ? AND check_create = STA_99;
\* rowcount # 1 -> "claim failed", exit 0
HClaim(d) ==
  /\ hpc[d] = "claim"
  /\ RetryLeft(attempt[d])
  /\ CanWrite(writer)
  /\ hpc' = [hpc EXCEPT ![d] = IF SuccessMatches(items, hitem[d], 5) THEN "work" ELSE "exit"]
  /\ attempt' = [attempt EXCEPT ![d] = 0]
  /\ hexc' = [hexc EXCEPT ![d] = NULL]
  /\ UNCHANGED <<items, writer, procs, runsArg, auxH, dvars, hitem, hrc, upserts, histvars>>

\* 02 only: the ranking came out short, increment_check_deploy, then go on
HDeploySkip(d) ==
  /\ hpc[d] = "work"
  /\ RetryLeft(attempt[d])
  /\ step[d] = 1
  /\ CanWrite(writer)
  /\ items' = DeploySkipUpdate(items, hitem[d])
  /\ hpc' = [hpc EXCEPT ![d] = "commit"]
  /\ attempt' = [attempt EXCEPT ![d] = 0]
  /\ hexc' = [hexc EXCEPT ![d] = NULL]
  /\ UNCHANGED <<writer, procs, runsArg, auxH, dvars, hitem, hrc, upserts, histvars>>

\* The work succeeded: the success UPDATE; rowcount = 0 raises RuntimeError,
\* which the handler's own except-branch catches.
HSuccess(d) ==
  /\ hpc[d] \in {"work", "commit"}
  /\ RetryLeft(attempt[d])
  /\ CanWrite(writer)
  /\ items' = SuccessUpdate(items, hitem[d], step[d], RunStamp(d))
  /\ IF SuccessMatches(items, hitem[d], step[d])
     THEN /\ hpc' = [hpc EXCEPT ![d] = "exit"]
          /\ completed' = completed \cup {<<hitem[d], step[d]>>}
     ELSE /\ hpc' = [hpc EXCEPT ![d] = "failmark"]
          /\ UNCHANGED completed
  /\ attempt' = [attempt EXCEPT ![d] = 0]
  /\ hexc' = [hexc EXCEPT ![d] = NULL]
  /\ UNCHANGED <<writer, procs, runsArg, auxH, dvars, hitem, hrc, upserts, hfailed, ran>>

\* The work raised (scrape, rendering, ffmpeg, ...)
HWorkFail(d) ==
  /\ hpc[d] = "work"
  /\ attempt[d] = 0
  /\ hpc' = [hpc EXCEPT ![d] = "failmark"]
  /\ hfailed' = [hfailed EXCEPT ![d] = TRUE]
  /\ UNCHANGED <<attempt, hexc>>
  /\ UNCHANGED <<items, writer, procs, runsArg, auxH, dvars, hitem, hrc, upserts, ran, completed>>

\* except-branch: update_stage_error / mark_fail, then exit status 1
HFailMark(d) ==
  /\ hpc[d] = "failmark"
  /\ RetryLeft(attempt[d])
  /\ CanWrite(writer)
  /\ items' = FailureUpdate(items, hitem[d], step[d], "error")
  /\ hpc' = [hpc EXCEPT ![d] = "exit"]
  /\ hrc' = [hrc EXCEPT ![d] = 1]
  /\ attempt' = [attempt EXCEPT ![d] = 0]
  /\ hexc' = [hexc EXCEPT ![d] = NULL]
  /\ UNCHANGED <<writer, procs, runsArg, auxH, dvars, hitem, upserts, histvars>>

\* ----------------------------------------------------- ingestion action
\* 00_リスト作成: upsert(con, row); con.commit()
Upsert(id, date) ==
  /\ upserts < MaxUpserts
  /\ CanWrite(writer)
  /\ items' = upsert(items, id, date)
  /\ upserts' = upserts + 1
  /\ UNCHANGED <<writer, procs, runsArg, aux, dvars, hvars, histvars>>

\* ------------------------------------------------------- specifications
\* Rows as the ingestion script creates them: check_create = 0 and nothing else set.
NewRows(S) == [S -> {Row(0, NULL, NULL, dt) : dt \in Dates}]

\* CREATE TABLE items of the ingestion script, and the columns the launcher,
\* queue_db and handler 02 add when they are missing.
BaseColumns ==
  {"id", "check_create", "check_date", "post_date", "comments_count", "category", "title",
   "post_title", "keywords_raw", "keywords_keep", "keywords_drop"}
QueueColumns ==
  <<"check_create", "folder_name", "last_error", "updated_at", "video_created",
    "video_created_at", "video_uploaded", "video_uploaded_at">>
Handler02Columns ==
  <<"check_create", "check_deploy", "folder_name", "keywords_raw", "last_error", "updated_at">>
SeqRange(q) == {q[k] : k \in 1..Len(q)}
AllColumns == BaseColumns \cup SeqRange(QueueColumns) \cup SeqRange(Handler02Columns)

\* No busy report, no timeout configured, the schema complete.
InitAuxButFailing ==
  /\ tries = [d \in Drivers |-> 0]
  /\ attempt = [d \in Drivers |-> 0]
  /\ hexc = [d \in Drivers |-> NULL]
  /\ timeoutOn = FALSE
  /\ hstdout = [d \in Drivers |-> FALSE]
  /\ hkill = [d \in Drivers |-> FALSE]
  /\ cols = AllColumns
  /\ impl = [d \in Drivers |-> "01"]
  /\ seen = [d \in Drivers |-> {}]
  /\ spos = [d \in Drivers |-> 0]
  /\ scalls = [d \in Drivers |-> 0]
  /\ serr = [d \in Drivers |-> NULL]
  /\ stamped = {}
  /\ uqueue = [d \in Drivers |-> <<>>]
  /\ uploaded = {}
  /\ exitcode = [d \in Drivers |-> NULL]
  /\ stas = ConfiguredStages

\* ... and no handler that is bound to fail.
InitAux ==
  /\ InitAuxButFailing
  /\ failing = 0

InitProcs(P, n) ==
  /\ procs = P
  /\ runsArg = [d \in Drivers |-> n]
  /\ writer = 0
  /\ pc = [d \in Drivers |-> "idle"]
  /\ item = [d \in Drivers |-> None]
  /\ step = [d \in Drivers |-> 1]
  /\ err = [d \in Drivers |-> NULL]
  /\ runs = [d \in Drivers |-> 0]
  /\ ret = [d \in Drivers |-> 0]
  /\ err_count = [d \in Drivers |-> 0]
  /\ rcs = [d \in Drivers |-> <<>>]
  /\ total_changes = [d \in Drivers |-> 0]
  /\ hpc = [d \in Drivers |-> "none"]
  /\ hitem = [d \in Drivers |-> None]
  /\ hrc = [d \in Drivers |-> 0]
  /\ upserts = 0
  /\ viaLock = [d \in Drivers |-> FALSE]
  /\ hfailed = [d \in Drivers |-> FALSE]
  /\ ran = [d \in Drivers |-> {}]
  /\ completed = {}

\* Launchers started with the default --runs against a store of new rows,
\* while the ingestion script adds or refreshes a row.
Init ==
  /\ \E n \in (MaxJobs - 1)..MaxJobs : items \in NewRows(1..n)
  /\ InitProcs(Drivers, RUNS_DEFAULT)
  /\ InitAux

Next ==
  \/ \E d \in procs : PickInProgress(d)
  \/ \E d \in procs : LockBegin(d)
  \/ \E d \in procs : LockSelect(d)
  \/ \E d \in procs : LockUpdateStep(d)
  \/ \E d \in procs : LockReread(d)
  \/ \E d \in procs : Guard(d)
  \/ \E d \in procs : Pre(d)
  \/ \E d \in procs : Run(d)
  \/ \E d \in procs : Wait(d)
  \/ \E d \in procs : Post(d)
  \/ \E d \in procs : Fail(d)
  \/ \E d \in procs : HPick(d)
  \/ \E d \in procs : HClaim(d)
  \/ \E d \in procs : HDeploySkip(d)
  \/ \E d \in procs : HSuccess(d)
  \/ \E d \in procs : HWorkFail(d)
  \/ \E d \in procs : HFailMark(d)
  \/ \E id \in Ids, date \in Dates : Upsert(id, date)

Spec == Init /\ [][Next]_vars

\* One launcher alone, started with --runs MaxRuns.
InitSingle ==
  /\ \E n \in (MaxJobs - 1)..MaxJobs : items \in NewRows(1..n)
  /\ InitProcs({1}, MaxRuns)
  /\ InitAux

SpecSingle == InitSingle /\ [][Next]_vars

\* N processes call lock_new_job_atomic at once, on connections that may have
\* changed rows before, against a store with exactly one row at check_create = 0
\* (new, or sent back to 0 with its last_error by a run with
\* RESET_TO_ZERO_ON_FAIL_02 set).
StoresWithOneNew ==
  {tbl \in [Ids -> {Row(0, NULL, le, dt) : le \in {NULL, FailureText(1, ExitMessage(1))},
                                           dt \in Dates}
                   \cup {Row(cc, FolderName(0, EarlierRun), NULL, dt) : cc \in 2..END_99, dt \in Dates}] :
     Cardinality(IdsAt(tbl, 0)) = 1}

InitLock ==
  /\ items \in StoresWithOneNew
  /\ procs = Drivers
  /\ runsArg = [d \in Drivers |-> RUNS_DEFAULT]
  /\ writer = 0
  /\ pc = [d \in Drivers |-> "lock_begin"]
  /\ item = [d \in Drivers |-> None]
  /\ step = [d \in Drivers |-> 1]
  /\ err = [d \in Drivers |-> NULL]
  /\ runs = [d \in Drivers |-> 0]
  /\ ret = [d \in Drivers |-> 0]
  /\ err_count = [d \in Drivers |-> 0]
  /\ rcs = [d \in Drivers |-> <<>>]
  /\ total_changes \in [Drivers -> 0..MaxTotalChanges]
  /\ hpc = [d \in Drivers |-> "none"]
  /\ hitem = [d \in Drivers |-> None]
  /\ hrc = [d \in Drivers |-> 0]
  /\ upserts = 0
  /\ viaLock = [d \in Drivers |-> FALSE]
  /\ hfailed = [d \in Drivers |-> FALSE]
  /\ ran = [d \in Drivers |-> {}]
  /\ completed = {}
  /\ InitAux

NextLock ==
  \/ \E d \in procs : LockBegin(d)
  \/ \E d \in procs : LockSelect(d)
  \/ \E d \in procs : LockUpdateStep(d)

SpecLock == InitLock /\ [][NextLock]_vars

\* guard_unique_stage called on stores with 0 .. GuardRowsMax rows at the stage
\* (and one row elsewhere).
StoresForGuard ==
  {[j \in 1..(n + 1) |-> IF j <= n THEN Row(STA(i), FolderName(j, EarlierRun), NULL, 1)
                         ELSE Row(0, NULL, NULL, 1)] :
     n \in 0..GuardRowsMax, i \in StepIdx}

InitGuard ==
  /\ items \in StoresForGuard
  /\ procs = {1}
  /\ runsArg = [d \in Drivers |-> RUNS_DEFAULT]
  /\ writer = 0
  /\ pc = [d \in Drivers |-> IF d = 1 THEN "guard" ELSE "idle"]
  /\ item = [d \in Drivers |-> IF d = 1 THEN 1 ELSE None]
  /\ step \in [Drivers -> StepIdx]
  /\ \A d \in Drivers : d # 1 => step[d] = 1
  /\ err = [d \in Drivers |-> NULL]
  /\ runs = [d \in Drivers |-> 0]
  /\ ret = [d \in Drivers |-> 0]
  /\ err_count = [d \in Drivers |-> 0]
  /\ rcs = [d \in Drivers |-> <<>>]
  /\ total_changes = [d \in Drivers |-> 0]
  /\ hpc = [d \in Drivers |-> "none"]
  /\ hitem = [d \in Drivers |-> None]
  /\ hrc = [d \in Drivers |-> 0]
  /\ upserts = 0
  /\ viaLock = [d \in Drivers |-> FALSE]
  /\ hfailed = [d \in Drivers |-> FALSE]
  /\ ran = [d \in Drivers |-> {}]
  /\ completed = {}
  /\ InitAux

NextGuard == \E d \in procs : Guard(d)

SpecGuard == InitGuard /\ [][NextGuard]_vars

\* --------------------------------------- handlers 02 / 99: the retry loops
\* Another connection (ingestion, uploader, a second pipeline) takes and
\* releases the write lock.
Ext == 9

ExtBegin ==
  /\ writer = 0
  /\ writer' = Ext
  /\ UNCHANGED <<items, procs, runsArg, aux, dvars, hvars, upserts, histvars>>

ExtCommit ==
  /\ writer = Ext
  /\ writer' = 0
  /\ UNCHANGED <<items, procs, runsArg, aux, dvars, hvars, upserts, histvars>>

\* One attempt of the loop: BEGIN IMMEDIATE raises OperationalError
\* "database is locked"; ROLLBACK, sleep, continue.
HLocked(d) ==
  /\ hpc[d] \in {"claim", "work", "commit", "failmark"}
  /\ step[d] \in {1, 5}
  /\ ~CanBeginImmediate(writer)
  /\ RetryLeft(attempt[d])
  /\ attempt' = [attempt EXCEPT ![d] = attempt[d] + 1]
  /\ UNCHANGED <<items, writer, procs, runsArg, auxH, hexc, dvars, hvars, upserts, histvars>>

\* The loop ran out: raise OperationalError("... (retry exceeded) ...").
\* From the success UPDATE the handler's except-branch catches it and starts
\* update_stage_error; from claim_job_atomic and from update_stage_error
\* nothing catches it and the process ends with exit status 1.
HRetryExceeded(d) ==
  /\ hpc[d] \in {"claim", "work", "commit", "failmark"}
  /\ step[d] \in {1, 5}
  /\ ~RetryLeft(attempt[d])
  /\ hexc' = [hexc EXCEPT ![d] = RetryExceeded(hpc[d])]
  /\ IF hpc[d] \in {"work", "commit"}
     THEN /\ hpc' = [hpc EXCEPT ![d] = "failmark"]
          /\ attempt' = [attempt EXCEPT ![d] = 0]
          /\ UNCHANGED hrc
     ELSE /\ hpc' = [hpc EXCEPT ![d] = "exit"]
          /\ hrc' = [hrc EXCEPT ![d] = 1]
          /\ UNCHANGED attempt
  /\ UNCHANGED <<items, writer, procs, runsArg, auxH, dvars, hitem, upserts, histvars>>

\* Handlers 02 and 99 started by hand, one each, on a table holding a job for each.
InitRetry ==
  /\ items = [i \in {1, 2} |->
               IF i = 1 THEN Row(STA(1), NULL, NULL, 1) ELSE Row(STA(5), FolderName(2, EarlierRun), NULL, 1)]
  /\ procs = Drivers
  /\ runsArg = [d \in Drivers |-> RUNS_DEFAULT]
  /\ writer = 0
  /\ pc = [d \in Drivers |-> "idle"]
  /\ item = [d \in Drivers |-> None]
  /\ step = [d \in Drivers |-> IF d = 2 THEN 5 ELSE 1]
  /\ err = [d \in Drivers |-> NULL]
  /\ runs = [d \in Drivers |-> 0]
  /\ ret = [d \in Drivers |-> 0]
  /\ err_count = [d \in Drivers |-> 0]
  /\ rcs = [d \in Drivers |-> <<>>]
  /\ total_changes = [d \in Drivers |-> 0]
  /\ hpc = [d \in Drivers |-> "pick"]
  /\ hitem = [d \in Drivers |-> None]
  /\ hrc = [d \in Drivers |-> 0]
  /\ upserts = 0
  /\ viaLock = [d \in Drivers |-> FALSE]
  /\ hfailed = [d \in Drivers |-> FALSE]
  /\ ran = [d \in Drivers |-> {}]
  /\ completed = {}
  /\ InitAux

NextRetry ==
  \/ ExtBegin
  \/ ExtCommit
  \/ \E d \in procs : HPick(d)
  \/ \E d \in procs : HClaim(d)
  \/ \E d \in procs : HDeploySkip(d)
  \/ \E d \in procs : HSuccess(d)
  \/ \E d \in procs : HWorkFail(d)
  \/ \E d \in procs : HFailMark(d)
  \/ \E d \in procs : HLocked(d)
  \/ \E d \in procs : HRetryExceeded(d)

SpecRetry == InitRetry /\ [][NextRetry]_vars

\* ------------------------------------------------- the column-ensuring step
MaxCalls == 2

\* everything the column-ensuring step leaves alone
nonschema == <<items, writer, procs, runsArg, dvars, hvars, upserts, histvars, tries, attempt,
               hexc, timeoutOn, hstdout, hkill, impl, stamped, exitcode, stas, uqueue, uploaded, failing>>

\* The three implementations: the launcher's ensure_columns ("01"), queue_db's
\* ensure_common_columns ("queue_db"), handler 02's ensure_columns ("02").
Impls == {"01", "queue_db", "02"}

\* the columns an implementation looks for, in the order of its code
Need(im) == IF im = "02" THEN Handler02Columns ELSE QueueColumns

\* add_col / _add: try: con.execute(sql) except Exception: pass.
\* Handler 02 executes the ALTER TABLE with no try around it.
Swallows(im) == im # "02"

\* ALTER TABLE ... ADD COLUMN of a column the table has
DuplicateColumn(k) == <<"OperationalError", "duplicate column name", k>>

\* PRAGMA table_info: the column names, read once at the head of the call
SRead(p) ==
  /\ spos[p] = 0
  /\ scalls[p] < MaxCalls
  /\ serr[p] = NULL
  /\ seen' = [seen EXCEPT ![p] = cols]
  /\ spos' = [spos EXCEPT ![p] = 1]
  /\ UNCHANGED <<cols, scalls, serr, nonschema>>

\* if name not in cols: ALTER TABLE ADD COLUMN, the column being absent in fact
SAddColumn(p) ==
  /\ spos[p] \in 1..Len(Need(impl[p]))
  /\ LET k == Need(impl[p])[spos[p]]
     IN  /\ k \in seen[p] \/ k \notin cols
         /\ cols' = IF k \in seen[p] THEN cols ELSE cols \cup {k}
         /\ seen' = [seen EXCEPT ![p] = IF impl[p] = "02" THEN @ \cup {k} ELSE @]
  /\ spos' = [spos EXCEPT ![p] = @ + 1]
  /\ UNCHANGED <<scalls, serr, nonschema>>

\* if name not in cols: ALTER TABLE ADD COLUMN, another process having added
\* the column since the read: sqlite raises "duplicate column name"
SDuplicate(p) ==
  /\ spos[p] \in 1..Len(Need(impl[p]))
  /\ LET k == Need(impl[p])[spos[p]]
     IN  /\ k \notin seen[p]
         /\ k \in cols
         /\ IF Swallows(impl[p])
            THEN /\ spos' = [spos EXCEPT ![p] = @ + 1]
                 /\ UNCHANGED <<scalls, serr>>
            ELSE /\ spos' = [spos EXCEPT ![p] = 0]
                 /\ scalls' = [scalls EXCEPT ![p] = @ + 1]
                 /\ serr' = [serr EXCEPT ![p] = DuplicateColumn(k)]
  /\ UNCHANGED <<cols, seen, nonschema>>

\* con.commit(); the call returns
SCommit(p) ==
  /\ spos[p] = Len(Need(impl[p])) + 1
  /\ spos' = [spos EXCEPT ![p] = 0]
  /\ scalls' = [scalls EXCEPT ![p] = @ + 1]
  /\ UNCHANGED <<cols, seen, serr, nonschema>>

\* Tables as they exist: as the ingestion script creates them, after the
\* launcher or queue_db has run, after handler 02 has run too.
Schemas == {BaseColumns, BaseColumns \cup SeqRange(QueueColumns), AllColumns}

InitSchema ==
  /\ items \in NewRows(1..1)
  /\ InitProcs(Drivers, RUNS_DEFAULT)
  /\ tries = [d \in Drivers |-> 0]
  /\ attempt = [d \in Drivers |-> 0]
  /\ hexc = [d \in Drivers |-> NULL]
  /\ timeoutOn = FALSE
  /\ hstdout = [d \in Drivers |-> FALSE]
  /\ hkill = [d \in Drivers |-> FALSE]
  /\ cols \in Schemas
  /\ impl \in [Drivers -> Impls]
  /\ seen = [d \in Drivers |-> {}]
  /\ spos = [d \in Drivers |-> 0]
  /\ scalls = [d \in Drivers |-> 0]
  /\ serr = [d \in Drivers |-> NULL]
  /\ stamped = {}
  /\ uqueue = [d \in Drivers |-> <<>>]
  /\ uploaded = {}
  /\ failing = 0
  /\ exitcode = [d \in Drivers |-> NULL]
  /\ stas = ConfiguredStages

NextSchema ==
  \/ \E d \in procs : SRead(d)
  \/ \E d \in procs : SAddColumn(d)
  \/ \E d \in procs : SDuplicate(d)
  \/ \E d \in procs : SCommit(d)

SpecSchema == InitSchema /\ [][NextSchema]_vars

\* ------------------------------------- run_script_realtime with a timeout
\* everything of aux but the state of the handler's pipe and the kill
auxT == <<tries, attempt, hexc, timeoutOn, cols, impl, seen, spos, scalls, serr, stamped, exitcode, stas, uqueue, uploaded, failing>>

\* raise RuntimeError(f"{script_path.name} timeout")
TimeoutMessage == <<"timeout">>

\* returncode of a process ended by p.kill()
KILLED == -9

HandlerRunning(d) == hpc[d] \notin {"none", "exit"}

\* The handler process closes its end of the pipe (stdout and stderr) and
\* goes on running.
HCloseStdout(d) ==
  /\ HandlerRunning(d)
  /\ ~hstdout[d]
  /\ hstdout' = [hstdout EXCEPT ![d] = TRUE]
  /\ UNCHANGED <<items, writer, procs, runsArg, auxT, hkill, dvars, hvars, upserts, histvars>>

\* for line in p.stdout: print(...) runs until end-of-file, which comes when
\* the handler has closed the pipe or has exited; no timeout applies to it
ReadEOF(d) ==
  /\ pc[d] = "wait"
  /\ hstdout[d] \/ hpc[d] = "exit"
  /\ pc' = [pc EXCEPT ![d] = "pwait"]
  /\ UNCHANGED <<items, writer, procs, runsArg, aux, item, step, err, runs, ret, err_count, rcs, total_changes,
                 viaLock, hvars, upserts, histvars>>

\* rc = p.wait(timeout=timeout) returns: rc # 0 raises "failed (exit=rc)"
PWaitExit(d) ==
  /\ pc[d] = "pwait"
  /\ hpc[d] = "exit"
  /\ hpc' = [hpc EXCEPT ![d] = "none"]
  /\ IF hrc[d] # 0
     THEN /\ err' = [err EXCEPT ![d] = ExitMessage(hrc[d])]
          /\ pc' = [pc EXCEPT ![d] = "fail"]
     ELSE /\ pc' = [pc EXCEPT ![d] = "post"]
          /\ UNCHANGED err
  /\ hitem' = [hitem EXCEPT ![d] = None]
  /\ hstdout' = [hstdout EXCEPT ![d] = FALSE]
  /\ UNCHANGED <<items, writer, procs, runsArg, auxT, hkill, item, step, runs, ret, err_count, rcs,
                 total_changes, hrc, upserts, viaLock, histvars>>

\* p.wait raises TimeoutExpired: p.kill(); raise RuntimeError("... timeout").
\* p.kill() sends the signal and returns; nothing waits for the process to end.
PWaitTimeout(d) ==
  /\ pc[d] = "pwait"
  /\ timeoutOn
  /\ hpc[d] # "exit"
  /\ hkill' = [hkill EXCEPT ![d] = TRUE]
  /\ err' = [err EXCEPT ![d] = TimeoutMessage]
  /\ pc' = [pc EXCEPT ![d] = "fail"]
  /\ UNCHANGED <<items, writer, procs, runsArg, auxT, hstdout, item, step, runs, ret, err_count, rcs,
                 total_changes, viaLock, hvars, upserts, histvars>>

\* the killed process ends
HKilled(d) ==
  /\ hkill[d]
  /\ HandlerRunning(d)
  /\ hpc' = [hpc EXCEPT ![d] = "exit"]
  /\ hrc' = [hrc EXCEPT ![d] = KILLED]
  /\ UNCHANGED <<items, writer, procs, runsArg, aux, dvars, hitem, upserts, histvars>>

\* One launcher with TIMEOUT_02 .. TIMEOUT_99 configured, started with the default --runs.
InitTimeout ==
  /\ \E n \in (MaxJobs - 1)..MaxJobs : items \in NewRows(1..n)
  /\ InitProcs({1}, RUNS_DEFAULT)
  /\ tries = [d \in Drivers |-> 0]
  /\ attempt = [d \in Drivers |-> 0]
  /\ hexc = [d \in Drivers |-> NULL]
  /\ timeoutOn = TRUE
  /\ hstdout = [d \in Drivers |-> FALSE]
  /\ hkill = [d \in Drivers |-> FALSE]
  /\ cols = AllColumns
  /\ impl = [d \in Drivers |-> "01"]
  /\ seen = [d \in Drivers |-> {}]
  /\ spos = [d \in Drivers |-> 0]
  /\ scalls = [d \in Drivers |-> 0]
  /\ serr = [d \in Drivers |-> NULL]
  /\ stamped = {}
  /\ uqueue = [d \in Drivers |-> <<>>]
  /\ uploaded = {}
  /\ failing = 0
  /\ exitcode = [d \in Drivers |-> NULL]
  /\ stas = ConfiguredStages

\* The launcher runs whenever it can; the handler is another program and may
\* stop making progress at any point.
LauncherStep(d) ==
  \/ PickInProgress(d)
  \/ LockBegin(d)
  \/ LockSelect(d)
  \/ LockUpdateStep(d)
  \/ LockReread(d)
  \/ Guard(d)
  \/ Pre(d)
  \/ Run(d)
  \/ ReadEOF(d)
  \/ PWaitExit(d)
  \/ PWaitTimeout(d)
  \/ Post(d)
  \/ Fail(d)


NextTimeout ==
  \/ \E d \in procs : PickInProgress(d)
  \/ \E d \in procs : LockBegin(d)
  \/ \E d \in procs : LockSelect(d)
  \/ \E d \in procs : LockUpdateStep(d)
  \/ \E d \in procs : LockReread(d)
  \/ \E d \in procs : Guard(d)
  \/ \E d \in procs : Pre(d)
  \/ \E d \in procs : Run(d)
  \/ \E d \in procs : ReadEOF(d)
  \/ \E d \in procs : PWaitExit(d)
  \/ \E d \in procs : PWaitTimeout(d)
  \/ \E d \in procs : Post(d)
  \/ \E d \in procs : Fail(d)
  \/ \E d \in procs : HPick(d)
  \/ \E d \in procs : HClaim(d)
  \/ \E d \in procs : HDeploySkip(d)
  \/ \E d \in procs : HSuccess(d)
  \/ \E d \in procs : HWorkFail(d)
  \/ \E d \in procs : HFailMark(d)
  \/ \E d \in procs : HCloseStdout(d)
  \/ \E d \in procs : HKilled(d)

SpecTimeout == InitTimeout /\ [][NextTimeout]_vars

SpecTimeoutFair == SpecTimeout /\ \A d \in Drivers : WF_vars(d \in procs /\ LauncherStep(d))

\* --------------------------------- the statements that write check_create
\* 投稿予約.py CFG and 00/03_画像生成.py
READY_STAGE == 6
UPLOADING_STAGE == 7
DONE_STAGE == 8
FAIL_BACK_STAGE == 6
STAGE_IN == 2
STAGE_OUT == 3

\* everything of aux but stamped
auxS == <<tries, attempt, hexc, timeoutOn, hstdout, hkill, cols, impl, seen, spos, scalls, serr,
          exitcode, stas, uqueue, uploaded, failing>>

\* a write of check_create alone, as the uploader's three UPDATEs and the old
\* handler 03's set_stage make it (their other columns are not modelled)
set_stage(tbl, id, val) == [tbl EXCEPT ![id].check_create = val]

\* launcher lock_new_job_atomic, the UPDATE: SET check_create, last_error, updated_at
StampClaim(id) ==
  /\ LockUpdateMatches(items, id)
  /\ items' = LockUpdate(items, id)
  /\ stamped' = {id}
  /\ UNCHANGED <<writer, procs, runsArg, auxS, dvars, hvars, upserts, histvars>>

\* handlers 02..99, the success UPDATE: SET check_create, last_error, updated_at
StampSuccess(id, i) ==
  /\ SuccessMatches(items, id, i)
  /\ items' = SuccessUpdate(items, id, i, EarlierRun)
  /\ stamped' = {id}
  /\ UNCHANGED <<writer, procs, runsArg, auxS, dvars, hvars, upserts, histvars>>

\* launcher update_item in the except-branch of section i:
\* SET check_create, last_error, updated_at WHERE id = ?
StampFail(id, i) ==
  /\ id \in DOMAIN items
  /\ items[id].check_create \in {STA(i), END(i)}
  /\ items' = update_item(items, id, FailStage(i), FailureText(i, ExitMessage(1)))
  /\ stamped' = {id}
  /\ UNCHANGED <<writer, procs, runsArg, auxS, dvars, hvars, upserts, histvars>>

\* old handler 03 (00/03_画像生成.py): set_stage(con, tid, STAGE_OUT), which is
\* UPDATE ... SET check_create = ? WHERE id = ? and nothing else
SetStage03(id) ==
  /\ id \in DOMAIN items
  /\ items[id].check_create = STAGE_IN
  /\ items' = set_stage(items, id, STAGE_OUT)
  /\ stamped' = {}
  /\ UNCHANGED <<writer, procs, runsArg, auxS, dvars, hvars, upserts, histvars>>

\* uploader lock_job_5_to_6: SET check_create, youtube_status, youtube_error
\* WHERE id = ? AND check_create = READY_STAGE
ULock(d, id) ==
  /\ pc[d] = "idle"
  /\ id \in DOMAIN items
  /\ items[id].check_create = READY_STAGE
  /\ items' = set_stage(items, id, UPLOADING_STAGE)
  /\ stamped' = {}
  /\ pc' = [pc EXCEPT ![d] = "uploading"]
  /\ item' = [item EXCEPT ![d] = id]
  /\ UNCHANGED <<writer, procs, runsArg, auxS, step, err, runs, ret, err_count, rcs, total_changes, viaLock,
                 hvars, upserts, histvars>>

\* uploader mark_done: SET check_create, video_uploaded, video_uploaded_at, youtube_* WHERE id = ?
UDone(d) ==
  /\ pc[d] = "uploading"
  /\ items' = set_stage(items, item[d], DONE_STAGE)
  /\ stamped' = {}
  /\ pc' = [pc EXCEPT ![d] = "idle"]
  /\ item' = [item EXCEPT ![d] = None]
  /\ UNCHANGED <<writer, procs, runsArg, auxS, step, err, runs, ret, err_count, rcs, total_changes, viaLock,
                 hvars, upserts, histvars>>

\* uploader mark_fail_back: SET check_create, youtube_status, youtube_error WHERE id = ?
UFailBack(d) ==
  /\ pc[d] = "uploading"
  /\ items' = set_stage(items, item[d], FAIL_BACK_STAGE)
  /\ stamped' = {}
  /\ pc' = [pc EXCEPT ![d] = "idle"]
  /\ item' = [item EXCEPT ![d] = None]
  /\ UNCHANGED <<writer, procs, runsArg, auxS, step, err, runs, ret, err_count, rcs, total_changes, viaLock,
                 hvars, upserts, histvars>>

\* The table of new rows and one uploader; the pipeline's writes arrive one
\* statement at a time.
InitStamp ==
  /\ \E n \in (MaxJobs - 1)..MaxJobs : items \in NewRows(1..n)
  /\ InitProcs({1}, RUNS_DEFAULT)
  /\ InitAux

NextStamp ==
  \/ \E id \in Ids : StampClaim(id)
  \/ \E id \in Ids, i \in StepIdx : StampSuccess(id, i)
  \/ \E id \in Ids, i \in StepIdx : StampFail(id, i)
  \/ \E id \in Ids : SetStage03(id)
  \/ \E d \in procs, id \in Ids : ULock(d, id)
  \/ \E d \in procs : UDone(d)
  \/ \E d \in procs : UFailBack(d)

SpecStamp == InitStamp /\ [][NextStamp]_vars

\* ------------------------------------ launchers that run more than once
\* Launcher 1 started with the default --runs, the others with --runs MaxRuns,
\* on a table with one new row.
InitPayload ==
  /\ items \in NewRows(1..1)
  /\ procs = Drivers
  /\ runsArg = [d \in Drivers |-> IF d = 1 THEN RUNS_DEFAULT ELSE MaxRuns]
  /\ writer = 0
  /\ pc = [d \in Drivers |-> "idle"]
  /\ item = [d \in Drivers |-> None]
  /\ step = [d \in Drivers |-> 1]
  /\ err = [d \in Drivers |-> NULL]
  /\ runs = [d \in Drivers |-> 0]
  /\ ret = [d \in Drivers |-> 0]
  /\ err_count = [d \in Drivers |-> 0]
  /\ rcs = [d \in Drivers |-> <<>>]
  /\ total_changes = [d \in Drivers |-> 0]
  /\ hpc = [d \in Drivers |-> "none"]
  /\ hitem = [d \in Drivers |-> None]
  /\ hrc = [d \in Drivers |-> 0]
  /\ upserts = 0
  /\ viaLock = [d \in Drivers |-> FALSE]
  /\ hfailed = [d \in Drivers |-> FALSE]
  /\ ran = [d \in Drivers |-> {}]
  /\ completed = {}
  /\ InitAux

NextPayload ==
  \/ \E d \in procs : PickInProgress(d)
  \/ \E d \in procs : LockBegin(d)
  \/ \E d \in procs : LockSelect(d)
  \/ \E d \in procs : LockUpdateStep(d)
  \/ \E d \in procs : LockReread(d)
  \/ \E d \in procs : Guard(d)
  \/ \E d \in procs : Pre(d)
  \/ \E d \in procs : Run(d)
  \/ \E d \in procs : Wait(d)
  \/ \E d \in procs : Post(d)
  \/ \E d \in procs : Fail(d)
  \/ \E d \in procs : HPick(d)
  \/ \E d \in procs : HClaim(d)
  \/ \E d \in procs : HDeploySkip(d)
  \/ \E d \in procs : HSuccess(d)
  \/ \E d \in procs : HWorkFail(d)
  \/ \E d \in procs : HFailMark(d)

SpecPayload == InitPayload /\ [][NextPayload]_vars

\* ------------------------------------------------------ main's exit status
\* Variant: main reports success whatever was counted.
MainExitCodeZero(errs) == 0

\* return 0 if err_count == 0 else 1
MainExitCode(errs) == IF errs = 0 THEN 0 ELSE 1

\* the for loop is over: range(args.runs) is used up, or STOP_ON_ERROR broke out
LoopDone(d) ==
  \/ runs[d] >= runsArg[d]
  \/ STOP_ON_ERROR /\ runs[d] > 0 /\ ret[d] # 0

\* main leaves the with block and returns
MainReturn(d) ==
  /\ pc[d] = "idle"
  /\ LoopDone(d)
  /\ pc' = [pc EXCEPT ![d] = "exited"]
  /\ exitcode' = [exitcode EXCEPT ![d] = MainExitCode(err_count[d])]
  /\ UNCHANGED <<items, writer, procs, runsArg, tries, attempt, hexc, timeoutOn, hstdout, hkill,
                 cols, impl, seen, spos, scalls, serr, stamped, stas, uqueue, uploaded, failing, item, step,
                 err, runs, ret,
                 err_count, rcs, total_changes, viaLock, hvars, upserts, histvars>>

\* One launcher started with --runs MaxRuns on an existing store.
NextMain ==
  \/ \E d \in procs : PickInProgress(d)
  \/ \E d \in procs : LockBegin(d)
  \/ \E d \in procs : LockSelect(d)
  \/ \E d \in procs : LockUpdateStep(d)
  \/ \E d \in procs : LockReread(d)
  \/ \E d \in procs : Guard(d)
  \/ \E d \in procs : Pre(d)
  \/ \E d \in procs : Run(d)
  \/ \E d \in procs : Wait(d)
  \/ \E d \in procs : Post(d)
  \/ \E d \in procs : Fail(d)
  \/ \E d \in procs : HPick(d)
  \/ \E d \in procs : HClaim(d)
  \/ \E d \in procs : HDeploySkip(d)
  \/ \E d \in procs : HSuccess(d)
  \/ \E d \in procs : HWorkFail(d)
  \/ \E d \in procs : HFailMark(d)
  \/ \E d \in procs : MainReturn(d)

SpecMain == InitSingle /\ [][NextMain]_vars

\* ------------------------------------------- pick_inprogress_job, called
MaxPickRows == 3

\* the stage values of a table: 0, the five in-progress values, the last END
StageValues == 0..END_99

\* pick_inprogress_job(con) on the store as it is, with the stages as configured
PickCall(d) ==
  /\ pc[d] = "idle"
  /\ item' = [item EXCEPT ![d] = pick_inprogress_with(items, stas)]
  /\ pc' = [pc EXCEPT ![d] = "picked"]
  /\ UNCHANGED <<items, writer, procs, runsArg, aux, step, err, runs, ret, err_count, rcs,
                 total_changes, viaLock, hvars, upserts, histvars>>

\* Any table of 1 .. MaxPickRows rows, and the five STA values configured in
\* any order.
InitPick ==
  /\ \E n \in 1..MaxPickRows :
       items \in [1..n -> {Row(cc, NULL, NULL, dt) : cc \in StageValues, dt \in Dates}]
  /\ InitProcs({1}, RUNS_DEFAULT)
  /\ tries = [d \in Drivers |-> 0]
  /\ attempt = [d \in Drivers |-> 0]
  /\ hexc = [d \in Drivers |-> NULL]
  /\ timeoutOn = FALSE
  /\ hstdout = [d \in Drivers |-> FALSE]
  /\ hkill = [d \in Drivers |-> FALSE]
  /\ cols = AllColumns
  /\ impl = [d \in Drivers |-> "01"]
  /\ seen = [d \in Drivers |-> {}]
  /\ spos = [d \in Drivers |-> 0]
  /\ scalls = [d \in Drivers |-> 0]
  /\ serr = [d \in Drivers |-> NULL]
  /\ stamped = {}
  /\ uqueue = [d \in Drivers |-> <<>>]
  /\ uploaded = {}
  /\ failing = 0
  /\ exitcode = [d \in Drivers |-> NULL]
  /\ stas \in Permutations(1..5)

NextPick == \E d \in procs : PickCall(d)

SpecPick == InitPick /\ [][NextPick]_vars

\* ------------------------------------------- the store reports busy
\* sqlite3.OperationalError("database is locked"): the write lock stayed with
\* another connection for longer than busy_timeout.
BusyError == <<"OperationalError", "database is locked">>

\* lock_new_job_atomic: BEGIN IMMEDIATE raises; the statement stands before the
\* try, nothing in process_one_item or main catches it, the process ends.
LockBeginBusy(d) ==
  /\ pc[d] = "lock_begin"
  /\ ~CanBeginImmediate(writer)
  /\ pc' = [pc EXCEPT ![d] = "raised"]
  /\ err' = [err EXCEPT ![d] = BusyError]
  /\ tries' = [tries EXCEPT ![d] = 1]
  /\ UNCHANGED <<items, writer, procs, runsArg, item, step, runs, ret, err_count, rcs, total_changes, hvars,
                 upserts, viaLock, histvars, attempt, hexc, timeoutOn, hstdout, hkill, cols,
                 impl, seen, spos, scalls, serr, stamped, exitcode, stas, uqueue, uploaded, failing>>

\* except-branch of section i: update_item raises inside the handler of the
\* first exception; it propagates out of process_one_item and main.
FailBusy(d) ==
  /\ pc[d] = "fail"
  /\ ~CanWrite(writer)
  /\ pc' = [pc EXCEPT ![d] = "raised"]
  /\ err' = [err EXCEPT ![d] = BusyError]
  /\ tries' = [tries EXCEPT ![d] = 1]
  /\ UNCHANGED <<items, writer, procs, runsArg, item, step, runs, ret, err_count, rcs, total_changes, hvars,
                 upserts, viaLock, histvars, attempt, hexc, timeoutOn, hstdout, hkill, cols,
                 impl, seen, spos, scalls, serr, stamped, exitcode, stas, uqueue, uploaded, failing>>

\* Two launchers on one new row, no ingestion, and a store that may report busy.
InitBusy ==
  /\ items \in NewRows(1..1)
  /\ InitProcs(Drivers, RUNS_DEFAULT)
  /\ InitAux

NextBusy ==
  \/ \E d \in procs : PickInProgress(d)
  \/ \E d \in procs : LockBegin(d)
  \/ \E d \in procs : LockBeginBusy(d)
  \/ \E d \in procs : LockSelect(d)
  \/ \E d \in procs : LockUpdateStep(d)
  \/ \E d \in procs : LockReread(d)
  \/ \E d \in procs : Guard(d)
  \/ \E d \in procs : Pre(d)
  \/ \E d \in procs : Run(d)
  \/ \E d \in procs : Wait(d)
  \/ \E d \in procs : Post(d)
  \/ \E d \in procs : Fail(d)
  \/ \E d \in procs : FailBusy(d)
  \/ \E d \in procs : HPick(d)
  \/ \E d \in procs : HClaim(d)
  \/ \E d \in procs : HDeploySkip(d)
  \/ \E d \in procs : HSuccess(d)
  \/ \E d \in procs : HWorkFail(d)
  \/ \E d \in procs : HFailMark(d)

SpecBusy == InitBusy /\ [][NextBusy]_vars

\* ================================================================ properties
\* A launcher that holds a job: it picked a row and has not returned yet.
Working(d) == pc[d] \in {"lock_reread", "guard", "pre", "run", "wait", "post", "fail"}
HandlerActive(d) == hpc[d] \in {"claim", "work", "commit", "failmark"}
Returned(d) == pc[d] = "idle" /\ runs[d] > 0

\* C1 (SpecLock): when N processes call lock_new_job_atomic concurrently on a
\* store with exactly one row at check_create = 0, at most one of them gets the
\* row (and the row is then at STA_02), every other call returns None, and once
\* all calls have returned exactly one of them got the row.
LockWinners == {d \in procs : pc[d] = "lock_reread"}
LockMutualExclusion ==
  /\ Cardinality(LockWinners) <= 1
  /\ \A d \in LockWinners :
       item[d] \in DOMAIN items /\ items[item[d]].check_create = STA_02
  /\ \A d \in procs : Returned(d) => item[d] = None /\ ret[d] = 0
  /\ (\A d \in procs : pc[d] \in {"lock_reread", "idle"}) => Cardinality(LockWinners) = 1
LockRaceDecided ==
  \E d, e \in procs :
    /\ pc[d] = "lock_reread" /\ items[item[d]].check_create = STA_02
    /\ Returned(e) /\ item[e] = None
    /\ total_changes[e] > 0

\* C2 (Spec): while several launchers run against one store, no two launchers
\* hold the same job at the same time and no two handler processes work on
\* the same job at the same time.
AtMostOneConsumerPerJob ==
  \A d, e \in procs :
    d # e =>
      /\ ~(Working(d) /\ Working(e) /\ item[d] = item[e])
      /\ ~(HandlerActive(d) /\ HandlerActive(e) /\ hitem[d] = hitem[e])

\* C3 (Spec): with RESET_TO_ZERO_ON_FAIL_02 false, no step ever lowers the
\* check_create of a row.
StageMonotone ==
  [][\A j \in DOMAIN items : items'[j].check_create >= items[j].check_create]_vars

\* C4 (Spec): a job whose handler i has completed successfully is never at
\* STA_i again.
NoReturnToCompletedStage ==
  \A c \in completed : items[c[1]].check_create # STA(c[2])

\* C5 (Spec): every in-progress stage value is held by at most one row.
SingleOccupantPerStage ==
  \A s \in InProgressStages : Cardinality(IdsAt(items, s)) <= 1

\* C6 (SpecGuard): guard_unique_stage(stage) returns normally iff exactly one
\* row has check_create = stage; with no such row or with two or more (more
\* than 50 included) it raises, and the message lists ids of rows found at
\* that stage.
GuardUniqueIffOne ==
  \A d \in procs :
    LET found == IdsAt(items, STA(step[d]))
    IN  /\ pc[d] = "pre" => Cardinality(found) = 1 /\ err[d] = NULL
        /\ pc[d] = "fail" =>
             /\ Cardinality(found) # 1
             /\ Len(err[d]) = 4
             /\ {err[d][4][k] : k \in 1..Len(err[d][4])} \subseteq found
             /\ Cardinality({err[d][4][k] : k \in 1..Len(err[d][4])}) = Len(err[d][4])
             /\ Len(err[d][4]) = IF Cardinality(found) > GUARD_LIMIT THEN GUARD_LIMIT
                                 ELSE Cardinality(found)
GuardRaisedOverLimit ==
  \E d \in procs : pc[d] = "fail" /\ Cardinality(IdsAt(items, STA(step[d]))) > GUARD_LIMIT

\* C7 (Spec): the row a handler selects by its own query is the job of the
\* launcher that spawned it.
HandlerSelectsDriversJob ==
  \A d \in procs : hitem[d] # None => hitem[d] = item[d]

\* C8 (SpecSingle): a single launcher's iteration that claimed its job with
\* lock_new_job_atomic and whose handlers all succeeded returns 0 and leaves
\* the job at the exit value of the last handler run (END_99), with the
\* folder_name handler 02 wrote and last_error NULL.
HappyIteration(d) == Returned(d) /\ viaLock[d] /\ ~hfailed[d]
HappyPath ==
  \A d \in procs :
    HappyIteration(d) =>
      /\ ret[d] = 0
      /\ ran[d] = StepIdx
      /\ items[item[d]].check_create = END(Max(ran[d]))
      /\ items[item[d]].check_create = END_99
      /\ items[item[d]].folder_name = FolderName(item[d], <<d, runs[d] - 1>>)
      /\ items[item[d]].last_error = NULL
HappyPathDone ==
  \E d \in procs :
    /\ HappyIteration(d) /\ ret[d] = 0 /\ ran[d] = StepIdx
    /\ items[item[d]].check_create = END_99

\* C9 (SpecSingle): when the handler of section i exits non-zero, the single
\* launcher's iteration returns 1, the job is (still) at STA_i, and last_error
\* holds the failure signature: step, exception type, "failed (exit=rc)".
HandlerExitedNonZero(d) == Returned(d) /\ hrc[d] # 0
HandlerFailure ==
  \A d \in procs :
    HandlerExitedNonZero(d) =>
      /\ ret[d] = 1
      /\ items[item[d]].check_create = STA(step[d])
      /\ items[item[d]].last_error = FailureText(step[d], ExitMessage(hrc[d]))
HandlerFailureSeen ==
  \E d \in procs : HandlerExitedNonZero(d) /\ ret[d] = 1 /\ step[d] > 1

\* C10 (Spec): when handler 02 has exited 0 but the job is not at END_02 or its
\* folder_name is empty, the launcher takes the failure branch (no section 03),
\* and leaving the failure branch of section 02 writes last_error and returns 1
\* with no handler but 02 spawned in that iteration.
PostconditionBroken02(d) ==
  /\ pc[d] = "post" /\ step[d] = 1 /\ hrc[d] = 0
  /\ \/ item[d] \notin DOMAIN items
     \/ items[item[d]].check_create # END_02
     \/ items[item[d]].folder_name = NULL
FailureLeavesStage ==
  [][\A d \in procs :
       (pc[d] = "fail" /\ pc'[d] # "fail" /\ item[d] \in DOMAIN items) =>
         items'[item[d]].check_create = items[item[d]].check_create]_vars

\* C16 (Spec): whenever process_one_item returns 1, that step has written the
\* iteration's failure message, which is not NULL, to the picked job's
\* last_error.
FailureRecorded ==
  [][\A d \in procs :
       (pc[d] # "idle" /\ pc'[d] = "idle" /\ ret'[d] = 1) =>
         /\ err[d] # NULL
         /\ item[d] \in DOMAIN items'
         /\ items'[item[d]].last_error = FailureText(step[d], err[d])
         /\ items'[item[d]].last_error # NULL]_vars
FailureRecordedSeen ==
  \E d \in procs :
    /\ Returned(d) /\ ret[d] = 1
    /\ items[item[d]].last_error # NULL
    /\ items[item[d]].last_error[2] = "failed"

\* C17 (Spec): the launcher never spawns a handler for a job whose
\* check_create is the terminal value END_99.
NoHandlerForTerminalJob ==
  [][\A d \in procs :
       (pc[d] = "run" /\ pc'[d] = "wait") =>
         items[item[d]].check_create # END_99]_vars
\* The selection half of C17: no pick returns a row that is at END_99.
PicksSkipTerminal ==
  [][\A d \in procs :
       (item'[d] # item[d] /\ item'[d] # None) =>
         items[item'[d]].check_create # END_99]_vars

\* C13 (SpecBusy): when a transaction of the launcher itself (the claim, the
\* failure transition) reports busy, the launcher retries it, so an error
\* surfaces only after more than one attempt.
DriverRetriesBusy ==
  \A d \in procs : pc[d] = "raised" => tries[d] > 1

\* C15 (SpecBusy): the failure transition of an iteration always ends with
\* process_one_item returning 1; no exception leaves the function.
FailureNeverThrows ==
  [][\A d \in procs :
       (pc[d] = "fail" /\ pc'[d] # "fail") => (pc'[d] = "idle" /\ ret'[d] = 1)]_vars

\* C12: in a retry-wrapped transaction of handlers 02 and 99 at most
\* LOCK_RETRY_MAX attempts report "locked"; "retry exceeded" is raised only
\* once LOCK_RETRY_MAX attempts have, and once they have the handler makes no
\* further attempt: its next step is that raise.
RetryBoundRespected ==
  [][\A d \in procs :
       /\ attempt'[d] <= LOCK_RETRY_MAX
       /\ (hexc'[d] # NULL /\ hexc'[d] # hexc[d]) => attempt[d] = LOCK_RETRY_MAX
       /\ (attempt[d] = LOCK_RETRY_MAX /\ (hpc'[d] # hpc[d] \/ attempt'[d] # attempt[d]))
            => hexc'[d] = RetryExceeded(hpc[d])]_vars

RetryExceededRaised ==
  \E d \in procs : hpc[d] = "exit" /\ hrc[d] = 1 /\ attempt[d] = LOCK_RETRY_MAX
                    /\ hexc[d] = RetryExceeded("failmark")

\* C14: the column-ensuring step raises no error, whether run twice in
\* sequence or by two processes that both read the column list before either
\* adds a column.
EnsureColumnsNeverRaises == \A p \in procs : serr[p] = NULL

\* C14, the part that holds: a call that runs alone (no other call in
\* progress from its read to its return) on a table it has already completed
\* changes no column and raises nothing.
SecondCallChangesNothing ==
  [][\A p \in procs :
       (scalls[p] >= 1 /\ serr[p] = NULL /\ \A q \in procs \ {p} : spos[q] = 0 /\ scalls[q] = 0)
         => (cols' = cols /\ serr'[p] = NULL)]_vars

\* C18: when a handler timed out, the launcher's failure transition
\* (update_item in the except-branch) is applied only once the handler process
\* has terminated.
TimeoutFailureAfterTermination ==
  [][\A d \in procs :
       (hkill[d] /\ pc[d] = "fail" /\ pc'[d] # "fail") => ~HandlerRunning(d)]_vars

\* C18, second half: once the failure transition of a timed-out handler is
\* applied the handler writes the table no more (the one launcher has returned,
\* so any further change of the table is the handler's).
NoHandlerWriteAfterTimeoutFailure ==
  [][\A d \in procs : (hkill[d] /\ pc[d] = "idle") => items' = items]_vars

\* C19: with a timeout configured, a launcher waiting for a handler that
\* neither exits nor closes its output stream gets out of the wait all the same.
TimeoutEnforced ==
  \A d \in Drivers :
    (d \in procs /\ timeoutOn /\ pc[d] = "wait")
      ~> (pc[d] # "wait" \/ hpc[d] = "exit" \/ hstdout[d])

\* C20: every step that changes a row's check_create also writes the row's
\* updated_at.
UpdatedAtFollowsStage ==
  [][\A id \in DOMAIN items :
       items'[id].check_create # items[id].check_create => id \in stamped']_vars

\* C20, the part that holds: every change of check_create other than the
\* uploader's three (READY -> UPLOADING, UPLOADING -> DONE, UPLOADING -> READY)
\* and STAGE_IN -> STAGE_OUT, which the old handler 03 makes too, stamps the row.
PipelineWritesStamp ==
  [][\A id \in DOMAIN items :
       (items'[id].check_create # items[id].check_create
          /\ <<items[id].check_create, items'[id].check_create>> \notin
               {<<READY_STAGE, UPLOADING_STAGE>>, <<UPLOADING_STAGE, DONE_STAGE>>,
                <<UPLOADING_STAGE, FAIL_BACK_STAGE>>, <<STAGE_IN, STAGE_OUT>>})
         => id \in stamped']_vars

\* C21: lock_new_job_atomic and update_item change only check_create and
\* last_error (and updated_at) of the one row with the given id: the row's
\* other columns and every other row stay as they were.
CoreTouchesOnlyQueueColumns ==
  [][\A d \in procs :
       (pc[d] \in {"lock_update", "fail"} /\ pc'[d] # pc[d])
         => /\ DOMAIN items' = DOMAIN items
            /\ \A j \in DOMAIN items :
                 /\ j # item[d] => items'[j] = items[j]
                 /\ items'[j].folder_name = items[j].folder_name
                 /\ items'[j].post_date = items[j].post_date]_vars

\* a failure transition was applied to a job that has a folder_name, with
\* another row in the table
CoreWroteBesideOtherColumns ==
  \E d \in procs :
    /\ pc[d] = "idle" /\ ret[d] = 1
    /\ item[d] \in DOMAIN items
    /\ items[item[d]].folder_name # NULL
    /\ items[item[d]].last_error # NULL
    /\ Cardinality(DOMAIN items) >= 2

\* C22: once a job's folder_name is set, no step of any launcher or handler
\* changes it.
PayloadWrittenOnce ==
  [][\A id \in DOMAIN items :
       items[id].folder_name # NULL => items'[id].folder_name = items[id].folder_name]_vars

\* C23: main returns 0 iff every iteration it executed returned 0 (none
\* executed included), and 1 iff at least one returned non-zero.
DriverExitCode ==
  \A d \in procs :
    pc[d] = "exited" =>
      /\ exitcode[d] = 0 <=> \A k \in 1..Len(rcs[d]) : rcs[d][k] = 0
      /\ exitcode[d] = 1 <=> \E k \in 1..Len(rcs[d]) : rcs[d][k] # 0

\* main returned 1 after an iteration that failed and a later one that succeeded
DriverExitedAfterMixedRuns ==
  \E d \in procs :
    /\ pc[d] = "exited" /\ exitcode[d] = 1
    /\ Len(rcs[d]) = MaxRuns /\ rcs[d][1] # 0 /\ rcs[d][Len(rcs[d])] = 0

\* C24: pick_inprogress_job returns None iff no job is at any of the five STA
\* values; otherwise it returns a job at the earliest role (in the order 02,
\* 03, 04, 05, 99) that has a job, and among the jobs of that role the one
\* with the greatest id, whatever the numeric order of the stage values.
RoleOf(cc) == CHOOSE k \in 1..Len(stas) : stas[k] = cc
InProgressIds == {j \in DOMAIN items : \E k \in 1..Len(stas) : items[j].check_create = stas[k]}
ResumeSelection ==
  \A d \in procs :
    pc[d] = "picked" =>
      /\ item[d] = None <=> InProgressIds = {}
      /\ item[d] # None =>
           /\ item[d] \in InProgressIds
           /\ \A k \in InProgressIds :
                /\ RoleOf(items[k].check_create) >= RoleOf(items[item[d]].check_create)
                /\ RoleOf(items[k].check_create) = RoleOf(items[item[d]].check_create)
                     => k <= item[d]

\* a job of an earlier role was returned although its stage value is the
\* greater number, its id the smaller and its post_date the older
ResumePickedAgainstNumericOrder ==
  \E d \in procs, k \in DOMAIN items :
    /\ pc[d] = "picked" /\ item[d] # None /\ k \in InProgressIds
    /\ items[item[d]].check_create > items[k].check_create
    /\ item[d] < k
    /\ items[item[d]].post_date < items[k].post_date

RaceIds == {0 - 1, 1, 2}
StoresForRace ==
  UNION {[S -> {Row(0, NULL, NULL, dt) : dt \in Dates}
               \cup {Row(cc, FolderName(0, EarlierRun), NULL, dt) : cc \in {STA_02, END_99}, dt \in Dates}] :
           S \in (SUBSET RaceIds) \ {{}}}

InitRace ==
  /\ items \in StoresForRace
  /\ procs = Drivers
  /\ runsArg = [d \in Drivers |-> RUNS_DEFAULT]
  /\ writer = 0
  /\ pc = [d \in Drivers |-> "lock_begin"]
  /\ item = [d \in Drivers |-> None]
  /\ step = [d \in Drivers |-> 1]
  /\ err = [d \in Drivers |-> NULL]
  /\ runs = [d \in Drivers |-> 0]
  /\ ret = [d \in Drivers |-> 0]
  /\ err_count = [d \in Drivers |-> 0]
  /\ rcs = [d \in Drivers |-> <<>>]
  /\ total_changes \in [Drivers -> 0..MaxTotalChanges]
  /\ hpc = [d \in Drivers |-> "none"]
  /\ hitem = [d \in Drivers |-> None]
  /\ hrc = [d \in Drivers |-> 0]
  /\ upserts = 0
  /\ viaLock = [d \in Drivers |-> FALSE]
  /\ hfailed = [d \in Drivers |-> FALSE]
  /\ ran = [d \in Drivers |-> {}]
  /\ completed = {}
  /\ InitAux

NextRace ==
  \/ \E d \in procs : LockBegin(d)
  \/ \E d \in procs : LockSelect(d)
  \/ \E d \in procs : LockUpdateStep(d)
  \/ \E d \in procs : LockReread(d)

SpecRace == InitRace /\ [][NextRace]_vars

\* C26: when the conditional UPDATE of lock_new_job_atomic changes no row in
\* this call, the call rolls back and returns None (the iteration ends with
\* "no item to process" and the store as it was), whatever the connection
\* changed before.
LostRaceReturnsNone ==
  [][\A d \in Drivers :
       (/\ pc[d] = "lock_update"
        /\ pc'[d] # "lock_update"
        /\ ~LockUpdateMatches(items, SqlIdEq(items, item[d])))
       => (pc'[d] = "idle" /\ item'[d] = None /\ ret'[d] = 0 /\ items' = items)]_vars

\* a call whose UPDATE changed no row has been made
ZeroRowUpdateMade ==
  \E d \in Drivers : pc[d] = "lock_update" /\ ~LockUpdateMatches(items, SqlIdEq(items, item[d]))

\* ------------------------------------------------ C27: one job in progress
JobsInProgress == {j \in DOMAIN items : items[j].check_create \in InProgressStages}

\* C27: a single launcher started on a store without a job in progress never
\* has more than one job at STA_02, STA_03, STA_04, STA_05 or STA_99.
AtMostOneInProgress == Cardinality(JobsInProgress) <= 1

\* a later iteration resumed the job in progress while a new job was waiting
ResumedWhileNewJobWaits ==
  /\ runs[1] >= 1
  /\ pc[1] = "guard"
  /\ ~viaLock[1]
  /\ item[1] \in JobsInProgress
  /\ IdsAt(items, 0) # {}

\* ------------------------------------------------ C28: chaining order
Min(S) == CHOOSE x \in S : \A y \in S : x <= y

\* C28: within one iteration process_one_item invokes the handlers in the role
\* order 02, 03, 04, 05, 99 only. The first section entered is the one of the
\* picked job's check_create; a later section i+1 is entered only from the
\* post-condition check of section i, with the job at END_i; and a handler is
\* spawned only for the section entered, after the handlers of every section
\* entered before it in this iteration.
ChainingOrder ==
  [][\A d \in Drivers :
       /\ (pc[d] \in {"idle", "lock_reread"} /\ pc'[d] = "guard")
            => (item'[d] \in DOMAIN items /\ items[item'[d]].check_create = STA(step'[d]))
       /\ (pc[d] \notin {"idle", "lock_reread"} /\ step'[d] # step[d])
            => /\ pc[d] = "post"
               /\ pc'[d] = "guard"
               /\ fetch_status(items, item[d]).check_create = END(step[d])
               /\ step'[d] = step[d] + 1
       /\ ran'[d] # ran[d]
            => \/ pc[d] = "idle" /\ ran'[d] = {}
               \/ /\ pc[d] = "run"
                  /\ ran'[d] = ran[d] \cup {step[d]}
                  /\ ran[d] = {} \/ ran[d] = Min(ran[d])..(step[d] - 1)]_vars

\* a handler was spawned in the iteration that verified the post-condition of
\* the section before it
ChainedHandlerRuns ==
  \E d \in Drivers : pc[d] = "wait" /\ step[d] >= 2 /\ ran[d] = 1..step[d]

\* ------------------------------------------------ C29: multiple occupants
\* Launchers started against a store that already holds two jobs at the same
\* STA_i, and a third job at any stage (a job past handler 02 has its folder).
CrowdIds == 1..(MaxJobs + 1)
CrowdRow(cc) ==
  IF cc <= STA_02 THEN Row(cc, NULL, NULL, 1) ELSE Row(cc, FolderName(0, EarlierRun), NULL, 1)
StoresCrowded ==
  {[j \in CrowdIds |-> IF j = x THEN CrowdRow(cx) ELSE CrowdRow(STA(i))] :
     i \in StepIdx, x \in {1, MaxJobs + 1}, cx \in 0..END_99}

InitCrowd ==
  /\ items \in StoresCrowded
  /\ InitProcs(Drivers, RUNS_DEFAULT)
  /\ InitAux

\* No job is at 0 alone, so lock_new_job_atomic is never called; and no chain
\* gets past the crowded stage to handler 99, so its claim_job_atomic is not
\* part of these runs.
NextCrowd ==
  \/ \E d \in procs : PickInProgress(d)
  \/ \E d \in procs : Guard(d)
  \/ \E d \in procs : Pre(d)
  \/ \E d \in procs : Run(d)
  \/ \E d \in procs : Wait(d)
  \/ \E d \in procs : Post(d)
  \/ \E d \in procs : Fail(d)
  \/ \E d \in procs : HPick(d)
  \/ \E d \in procs : HDeploySkip(d)
  \/ \E d \in procs : HSuccess(d)
  \/ \E d \in procs : HWorkFail(d)
  \/ \E d \in procs : HFailMark(d)

SpecCrowd == InitCrowd /\ [][NextCrowd]_vars

Occupants(tbl, i) == Cardinality(IdsAt(tbl, STA(i)))

\* C29: while two or more jobs are at the same STA_i, no launcher spawns
\* handler i, and no step of a launcher (a step that moves a launcher on)
\* changes the number of jobs at STA_i.
MultipleOccupantsStay ==
  [][\A i \in StepIdx :
       Occupants(items, i) >= 2 =>
         /\ ~(\E d \in Drivers : pc[d] = "run" /\ pc'[d] = "wait" /\ step[d] = i)
         /\ pc' # pc => Occupants(items', i) = Occupants(items, i)]_vars

\* ------------------------------------------------ C30: the payload precondition
\* Handlers 03, 04, 05 and 99 started (by a launcher that waits for them) on
\* stores whose rows are at any stage, with folder_name NULL, '' or a name.
FolderValues == {NULL, EmptyStr, FolderName(0, EarlierRun)}
StoresForFolder ==
  [Ids -> {Row(cc, f, NULL, dt) : cc \in 0..END_99, f \in FolderValues, dt \in Dates}]

InitFolder ==
  /\ items \in StoresForFolder
  /\ procs = Drivers
  /\ runsArg = [d \in Drivers |-> RUNS_DEFAULT]
  /\ writer = 0
  /\ pc = [d \in Drivers |-> "wait"]
  /\ item = [d \in Drivers |-> None]
  /\ step \in [Drivers -> 2..5]
  /\ err = [d \in Drivers |-> NULL]
  /\ runs = [d \in Drivers |-> 0]
  /\ ret = [d \in Drivers |-> 0]
  /\ err_count = [d \in Drivers |-> 0]
  /\ rcs = [d \in Drivers |-> <<>>]
  /\ total_changes = [d \in Drivers |-> 0]
  /\ hpc = [d \in Drivers |-> "pick"]
  /\ hitem = [d \in Drivers |-> None]
  /\ hrc = [d \in Drivers |-> 0]
  /\ upserts = 0
  /\ viaLock = [d \in Drivers |-> FALSE]
  /\ hfailed = [d \in Drivers |-> FALSE]
  /\ ran = [d \in Drivers |-> {step[d]}]
  /\ completed = {}
  /\ InitAux

NextFolder ==
  \/ \E d \in procs : HPick(d)
  \/ \E d \in procs : HClaim(d)
  \/ \E d \in procs : HSuccess(d)
  \/ \E d \in procs : HWorkFail(d)
  \/ \E d \in procs : HFailMark(d)

SpecFolder == InitFolder /\ [][NextFolder]_vars

\* C30: handlers 03, 04, 05 and 99 never take a job whose folder_name is NULL
\* or '' as the job they work on, and no step of theirs changes such a row
\* (its check_create stays as it was).
FolderlessJobUntouched ==
  [][/\ \A j \in DOMAIN items : ~HasFolder(items, j) => items'[j] = items[j]
     /\ \A d \in Drivers : hitem'[d] # None => HasFolder(items', hitem'[d])]_vars

\* a handler advanced a job with a folder although a job without one at the same
\* stage came first in its ORDER BY
FolderlessJobPassedOver ==
  \E d \in Drivers, j \in DOMAIN items :
    /\ <<hitem[d], step[d]>> \in completed
    /\ j # hitem[d]
    /\ items[j].check_create = STA(step[d])
    /\ ~HasFolder(items, j)
    /\ Before(items, j, hitem[d])

\* ------------------------------------------------ C31: mark_done
\* Handlers 03, 04 and 05 at the end of their work on a job they picked earlier
\* (it has a folder_name); since the pick other processes (handlers of this and
\* of later roles, a launcher's except-branch, the uploader) may have moved the
\* job to any stage.
InitDone ==
  /\ items \in StoresForFolder
  /\ procs = Drivers
  /\ runsArg = [d \in Drivers |-> RUNS_DEFAULT]
  /\ writer = 0
  /\ pc = [d \in Drivers |-> "wait"]
  /\ item = [d \in Drivers |-> None]
  /\ step \in [Drivers -> 2..4]
  /\ err = [d \in Drivers |-> NULL]
  /\ runs = [d \in Drivers |-> 0]
  /\ ret = [d \in Drivers |-> 0]
  /\ err_count = [d \in Drivers |-> 0]
  /\ rcs = [d \in Drivers |-> <<>>]
  /\ total_changes = [d \in Drivers |-> 0]
  /\ hpc = [d \in Drivers |-> "work"]
  /\ hitem \in [Drivers -> {j \in Ids : HasFolder(items, j)}]
  /\ hrc = [d \in Drivers |-> 0]
  /\ upserts = 0
  /\ viaLock = [d \in Drivers |-> FALSE]
  /\ hfailed = [d \in Drivers |-> FALSE]
  /\ ran = [d \in Drivers |-> {step[d]}]
  /\ completed = {}
  /\ InitAux

NextDone ==
  \/ \E d \in procs : HSuccess(d)
  \/ \E d \in procs : HWorkFail(d)
  \/ \E d \in procs : HFailMark(d)

SpecDone == InitDone /\ [][NextDone]_vars

\* the step in which handler d (03, 04 or 05) calls queue_db.mark_done: its
\* work ended without an exception
MarkDoneCall(d) ==
  /\ step[d] \in 2..4
  /\ hpc[d] = "work"
  /\ hpc'[d] # "work"
  /\ hfailed'[d] = hfailed[d]

\* C31: mark_done(item_id, STA, END) sets check_create = END and last_error =
\* NULL when the row is at STA at that moment (and the handler goes on to exit);
\* otherwise it changes nothing and raises (the handler lands in its
\* except-branch).
MarkDoneCompareAndSwap ==
  [][\A d \in Drivers :
       MarkDoneCall(d) =>
         IF items[hitem[d]].check_create = STA(step[d])
         THEN /\ items' = [items EXCEPT ![hitem[d]].check_create = END(step[d]),
                                        ![hitem[d]].last_error = NULL]
              /\ hpc'[d] = "exit"
         ELSE /\ items' = items
              /\ hpc'[d] = "failmark"]_vars

\* mark_done raised: the job had left STA between the handler's pick and its
\* mark_done
MarkDoneRaised ==
  \E d \in Drivers :
    /\ step[d] \in 2..4
    /\ hpc[d] = "failmark"
    /\ ~hfailed[d]
    /\ items[hitem[d]].check_create # STA(step[d])

\* ------------------------------------------------ C32: mark_fail
\* the step in which handler d (03, 04 or 05) calls queue_db.mark_fail
MarkFailCall(d) == step[d] \in 2..4 /\ hpc[d] = "failmark" /\ hpc'[d] # "failmark"

\* C32: when a handler 03, 04 or 05 reports a failure through mark_fail, also
\* after its own mark_done found the job away from STA, the job's check_create
\* is the same after the call as before it.
MarkFailKeepsStage ==
  [][\A d \in Drivers :
       MarkFailCall(d) => items'[hitem[d]].check_create = items[hitem[d]].check_create]_vars

\* ------------------------------------------------ C33: claim_job_atomic of 99
\* C33: two processes of handler 99 never build the video of the same job at
\* once: of two that picked the same job at STA_99 at most one gets True from
\* claim_job_atomic and goes on to run_build.
OneBuilderPerJob ==
  \A d1, d2 \in Drivers :
    (d1 # d2 /\ step[d1] = 5 /\ step[d2] = 5 /\ hpc[d1] = "work" /\ hpc[d2] = "work")
      => hitem[d1] # hitem[d2]

\* ------------------------------------------------ C34: ingestion
\* The ingestion script run against stores whose rows are at any stage.
StoresForUpsert ==
  UNION {[S -> {CrowdRow(cc) : cc \in 0..END_99}] : S \in SUBSET CrowdIds}

InitUpsert ==
  /\ items \in StoresForUpsert
  /\ InitProcs({}, RUNS_DEFAULT)
  /\ InitAux

NextUpsert == \E id \in CrowdIds, date \in Dates : Upsert(id, date)

SpecUpsert == InitUpsert /\ [][NextUpsert]_vars

\* C34: upsert leaves the check_create of every row that exists as it is, and
\* a row it inserts gets the caller's check_create, which is 0 for the rows the
\* ingestion script builds.
UpsertKeepsStage ==
  [][/\ upserts' # upserts =>
          /\ \A j \in DOMAIN items :
               j \in DOMAIN items' /\ items'[j].check_create = items[j].check_create
          /\ \A j \in DOMAIN items' \ DOMAIN items : items'[j].check_create = 0
     /\ \A id \in CrowdIds, cc \in 0..END_99, date \in Dates :
          LET t == upsert_with(items, id, cc, date)
          IN  /\ \A j \in DOMAIN items : t[j].check_create = items[j].check_create
              /\ id \notin DOMAIN items => t[id].check_create = cc]_vars

\* an upsert met a row that was past stage 0 (every id is there and none is at 0)
UpsertMetQueuedRow ==
  /\ upserts >= 1
  /\ DOMAIN items = CrowdIds
  /\ \A j \in CrowdIds : items[j].check_create # 0

\* ------------------------------------------------ the uploader's main loop
\* CFG["LIMIT"]: how many jobs one run of the uploader fetches
LIMIT == 1

\* ORDER BY CAST(id AS INTEGER) ASC over the ids of S
RECURSIVE OrderByIntId(_)
OrderByIntId(S) ==
  IF S = {} THEN <<>>
  ELSE LET j == CHOOSE x \in S : \A y \in S : int_id(x) <= int_id(y)
       IN  <<j>> \o OrderByIntId(S \ {j})

FirstN(q, n) == SubSeq(q, 1, IF Len(q) < n THEN Len(q) ELSE n)

\* fetch_upload_queue: WHERE check_create = READY_STAGE AND video_created = 1
\* AND video_uploaded = 0 AND folder_name != '' ORDER BY CAST(id AS INTEGER)
\* LIMIT ?  (video_created is 1 on every row handler 99 has moved to END_99)
fetch_upload_queue(tbl, upl, limit) ==
  FirstN(OrderByIntId({j \in DOMAIN tbl : /\ tbl[j].check_create = READY_STAGE
                                          /\ j \notin upl
                                          /\ HasFolder(tbl, j)}), limit)

\* lock_job_5_to_6 reaches its UPDATE and the UPDATE matches: the row is there,
\* video_uploaded is 0 and check_create is READY_STAGE; it raises otherwise
LockJobMatches(tbl, upl, id) ==
  /\ id \in DOMAIN tbl
  /\ id \notin upl
  /\ tbl[id].check_create = READY_STAGE

\* mark_fail_back: SET check_create = FAIL_BACK_STAGE ... WHERE id = ?
mark_fail_back(tbl, id) ==
  IF id \in DOMAIN tbl THEN set_stage(tbl, id, FAIL_BACK_STAGE) ELSE tbl

\* the end of one pass of "for i, job in enumerate(queue)"
NextJob(d) ==
  /\ uqueue' = [uqueue EXCEPT ![d] = Tail(uqueue[d])]
  /\ pc' = [pc EXCEPT ![d] = IF Tail(uqueue[d]) = <<>> THEN "idle" ELSE "ujob"]
  /\ item' = [item EXCEPT ![d] = None]

uvars == <<writer, procs, runsArg, failing, tries, attempt, hexc, timeoutOn, hstdout, hkill, cols, impl, seen,
           spos, scalls, serr, exitcode, stas, step, err, ret, err_count, rcs, total_changes, viaLock,
           hvars, upserts, histvars>>

\* uploader main, step 3: queue = fetch_upload_queue(...); an empty queue ends the run
UFetch(d) ==
  /\ pc[d] = "idle"
  /\ runs[d] < MaxRuns
  /\ runs' = [runs EXCEPT ![d] = runs[d] + 1]
  /\ LET q == fetch_upload_queue(items, uploaded, LIMIT)
     IN  /\ uqueue' = [uqueue EXCEPT ![d] = q]
         /\ pc' = [pc EXCEPT ![d] = IF q = <<>> THEN "idle" ELSE "ujob"]
  /\ UNCHANGED <<items, item, stamped, uploaded, uvars>>

\* uploader main, the try of one job: lock_job_5_to_6 commits; upload_video follows
ULockJob(d) ==
  /\ pc[d] = "ujob"
  /\ LockJobMatches(items, uploaded, Head(uqueue[d]))
  /\ items' = set_stage(items, Head(uqueue[d]), UPLOADING_STAGE)
  /\ stamped' = {}
  /\ pc' = [pc EXCEPT ![d] = "uploading"]
  /\ item' = [item EXCEPT ![d] = Head(uqueue[d])]
  /\ UNCHANGED <<runs, uqueue, uploaded, uvars>>

\* lock_job_5_to_6 rolls back and raises RuntimeError: "id not found",
\* "already uploaded" or "expected check_create=..."; main's except takes it
ULockRaise(d) ==
  /\ pc[d] = "ujob"
  /\ ~LockJobMatches(items, uploaded, Head(uqueue[d]))
  /\ pc' = [pc EXCEPT ![d] = "ufail"]
  /\ item' = [item EXCEPT ![d] = Head(uqueue[d])]
  /\ UNCHANGED <<items, runs, stamped, uqueue, uploaded, uvars>>

\* upload_video returned the video id; mark_done: SET check_create = DONE_STAGE,
\* video_uploaded = 1, ... WHERE id = ?
UMarkDone(d) ==
  /\ pc[d] = "uploading"
  /\ items' = set_stage(items, item[d], DONE_STAGE)
  /\ uploaded' = uploaded \cup {item[d]}
  /\ stamped' = {}
  /\ NextJob(d)
  /\ UNCHANGED <<runs, uvars>>

\* anything between the lock and mark_done raised (the video file is missing,
\* the upload failed): main's except takes it
UUploadRaise(d) ==
  /\ pc[d] = "uploading"
  /\ pc' = [pc EXCEPT ![d] = "ufail"]
  /\ UNCHANGED <<items, item, runs, stamped, uqueue, uploaded, uvars>>

\* main's except Exception: set_yt_status(..., "failed", tb), which leaves
\* check_create alone, then mark_fail_back(con, table_name, job.id, tb)
UMarkFailBack(d) ==
  /\ pc[d] = "ufail"
  /\ items' = mark_fail_back(items, item[d])
  /\ stamped' = {}
  /\ NextJob(d)
  /\ UNCHANGED <<runs, uploaded, uvars>>

\* The uploaders, each started up to MaxRuns times, on a table whose jobs
\* handler 99 has finished or is still building.
StoresForUpload == [Ids -> {CrowdRow(cc) : cc \in {STA_99, READY_STAGE}}]

InitUpload ==
  /\ items \in StoresForUpload
  /\ InitProcs(Drivers, RUNS_DEFAULT)
  /\ InitAux

NextUpload ==
  \/ \E d \in procs : UFetch(d)
  \/ \E d \in procs : ULockJob(d)
  \/ \E d \in procs : ULockRaise(d)
  \/ \E d \in procs : UMarkDone(d)
  \/ \E d \in procs : UUploadRaise(d)
  \/ \E d \in procs : UMarkFailBack(d)

SpecUpload == InitUpload /\ [][NextUpload]_vars

\* the uploaders that are between a committed lock_job_5_to_6 and the end of
\* upload_video for job id
Uploading(id) == {d \in procs : pc[d] = "uploading" /\ item[d] = id}

\* C35: no double upload. An upload of a job is started only by the process
\* whose lock_job_5_to_6 moved the job from READY_STAGE to UPLOADING_STAGE;
\* while the upload runs no other process moves the job back to READY_STAGE;
\* and no job is uploaded by two processes.
NoDoubleUpload ==
  /\ [][\A d \in procs, id \in Ids :
          /\ (d \in Uploading(id)' /\ d \notin Uploading(id)) =>
               /\ items[id].check_create = READY_STAGE
               /\ items'[id].check_create = UPLOADING_STAGE
          /\ (d \in Uploading(id) /\ d \in Uploading(id)'
                /\ items[id].check_create = UPLOADING_STAGE) =>
               items'[id].check_create # READY_STAGE]_vars
  /\ [](\A id \in Ids : Cardinality(Uploading(id)) <= 1)

\* C35, the part that holds: an upload is started only by the step that moves
\* the job from READY_STAGE to UPLOADING_STAGE.
UploadStartedByLockHolder ==
  [][\A d \in procs, id \in Ids :
       (d \in Uploading(id)' /\ d \notin Uploading(id)) =>
         /\ items[id].check_create = READY_STAGE
         /\ items'[id].check_create = UPLOADING_STAGE]_vars

\* C35, the consequence alone: no two processes upload one job at a time.
OneUploaderPerJob == \A id \in Ids : Cardinality(Uploading(id)) <= 1

\* C36: once mark_done has set a job to DONE_STAGE with video_uploaded = 1, no
\* step of any uploader changes the job's check_create.
UploadedIsAbsorbing ==
  [][\A id \in Ids :
       (items[id].check_create = DONE_STAGE /\ id \in uploaded) =>
         items'[id].check_create = DONE_STAGE]_vars

\* ------------------------------------------- one launcher, handlers that succeed
\* the jobs of a table that have not reached END_99
Unfinished(tbl) == {j \in DOMAIN tbl : tbl[j].check_create # END_99}

\* The tables one launcher working alone leaves behind: new jobs, finished jobs
\* and at most one job in progress.
StoresForProgress ==
  UNION {{tbl \in [1..n -> {CrowdRow(cc) : cc \in 0..END_99}] :
            Cardinality({j \in 1..n : tbl[j].check_create \in 1..STA_99}) <= 1} : n \in 1..MaxJobs}

\* One launcher, started with --runs at least the number of unfinished jobs: it
\* keeps iterating for as long as a job is left.
InitProgress ==
  /\ items \in StoresForProgress
  /\ InitProcs({1}, Cardinality(Unfinished(items)))
  /\ InitAux

\* No ingestion, no second process, and no handler whose work raises.
\* Fail is left out: no check of process_one_item raises here.
ProgressStep(d) ==
  \/ PickInProgress(d)
  \/ LockBegin(d)
  \/ LockSelect(d)
  \/ LockUpdateStep(d)
  \/ LockReread(d)
  \/ Guard(d)
  \/ Pre(d)
  \/ Run(d)
  \/ Wait(d)
  \/ Post(d)
  \/ HPick(d)
  \/ HClaim(d)
  \/ HDeploySkip(d)
  \/ HSuccess(d)

NextProgress ==
  \/ \E d \in procs : PickInProgress(d)
  \/ \E d \in procs : LockBegin(d)
  \/ \E d \in procs : LockSelect(d)
  \/ \E d \in procs : LockUpdateStep(d)
  \/ \E d \in procs : LockReread(d)
  \/ \E d \in procs : Guard(d)
  \/ \E d \in procs : Pre(d)
  \/ \E d \in procs : Run(d)
  \/ \E d \in procs : Wait(d)
  \/ \E d \in procs : Post(d)
  \/ \E d \in procs : HPick(d)
  \/ \E d \in procs : HClaim(d)
  \/ \E d \in procs : HDeploySkip(d)
  \/ \E d \in procs : HSuccess(d)

SpecProgress == InitProgress /\ [][NextProgress]_vars

\* The launcher process and the handler it waits for keep running.
SpecProgressFair == SpecProgress /\ \A d \in Drivers : WF_vars(d \in procs /\ ProgressStep(d))

\* C37: with one launcher that keeps iterating, finitely many jobs, no store
\* contention and handlers that succeed on every invocation, every job at
\* check_create = 0 eventually reaches END_99.
ProgressToCompletion ==
  \A j \in Ids :
    (j \in DOMAIN items /\ items[j].check_create = 0)
      ~> (j \in DOMAIN items /\ items[j].check_create = END_99)

\* a job that was claimed from 0 by this launcher's second iteration has reached END_99
NewJobCompleted ==
  \E j \in DOMAIN items :
    /\ items[j].check_create = END_99
    /\ items[j].folder_name = FolderName(j, <<1, 1>>)

\* ------------------------------ one launcher, one handler that always fails
\* the work of a handler other than `failing` succeeds
HWorks(d) == step[d] # failing /\ HSuccess(d)

\* the work of handler `failing` raises
HRaises(d) == step[d] = failing /\ HWorkFail(d)

\* 02's short ranking, in a run of 02 whose work succeeds afterwards
HDeploySkipWorks(d) == step[d] # failing /\ HDeploySkip(d)

\* One launcher started with --runs MaxRuns on a table with new jobs, finished
\* jobs and at most one job in progress; one of the five handlers raises
\* whenever it is run, the other four succeed.
InitBlocked ==
  /\ items \in StoresForProgress
  /\ InitProcs({1}, MaxRuns)
  /\ InitAuxButFailing
  /\ failing \in StepIdx

NextBlocked ==
  \/ \E d \in procs : PickInProgress(d)
  \/ \E d \in procs : LockBegin(d)
  \/ \E d \in procs : LockSelect(d)
  \/ \E d \in procs : LockUpdateStep(d)
  \/ \E d \in procs : LockReread(d)
  \/ \E d \in procs : Guard(d)
  \/ \E d \in procs : Pre(d)
  \/ \E d \in procs : Run(d)
  \/ \E d \in procs : Wait(d)
  \/ \E d \in procs : Post(d)
  \/ \E d \in procs : Fail(d)
  \/ \E d \in procs : HPick(d)
  \/ \E d \in procs : HClaim(d)
  \/ \E d \in procs : HDeploySkipWorks(d)
  \/ \E d \in procs : HWorks(d)
  \/ \E d \in procs : HRaises(d)
  \/ \E d \in procs : HFailMark(d)

SpecBlocked == InitBlocked /\ [][NextBlocked]_vars

\* C38: head-of-line blocking. With one launcher and retry-in-place, once a job
\* is at the STA value of the handler that fails on every invocation, it stays
\* there and no job's check_create changes any more: no job at 0 is claimed.
HeadOfLineBlocking ==
  [][(\E x \in DOMAIN items : items[x].check_create = STA(failing)) =>
       \A j \in DOMAIN items :
         j \in DOMAIN items' /\ items'[j].check_create = items[j].check_create]_vars

\* two iterations have failed on the job at the failing handler's stage, the
\* second one by resuming it, while a new job waits at 0
BlockedJobRetried ==
  /\ rcs[1] = <<1, 1>>
  /\ \E x \in DOMAIN items :
       /\ items[x].check_create = STA(failing)
       /\ items[x].last_error # NULL
  /\ \E j \in DOMAIN items : items[j].check_create = 0

====
